---- MODULE Spec2Model ----
(***************************************************************************)
(* BillsBuddy: the extract handler (lambdas/ExtractBillFieldsFn) and the   *)
(* schedule handler (lambdas/ScheduleRemindersFn) as state machines.       *)
(*                                                                         *)
(* Text is a sequence of one-character strings.  The characters that are   *)
(* not ASCII are written by their code point: "U20B5" is the cedi sign,    *)
(* "U00A2" the cent sign, "U20AC" the euro sign, "U00A3" the pound sign    *)
(* and "U20A6" the naira sign.                                             *)
(*                                                                         *)
(* A record constructor lists its fields in the order in which the names   *)
(* first occur in this module, the order in which the model checker keeps  *)
(* them, so that its workers never re-order a record they share.           *)
(***************************************************************************)
EXTENDS Integers, Sequences, FiniteSets, TLC

\* ------------------------------------------------------------------------
\* Characters and strings (what Python's str and re do on them)
\* ------------------------------------------------------------------------

UpperLetters ==
  <<"A","B","C","D","E","F","G","H","I","J","K","L","M",
    "N","O","P","Q","R","S","T","U","V","W","X","Y","Z">>

LowerLetters ==
  <<"a","b","c","d","e","f","g","h","i","j","k","l","m",
    "n","o","p","q","r","s","t","u","v","w","x","y","z">>

Digits == <<"0","1","2","3","4","5","6","7","8","9">>

Range(f) == { f[i] : i \in DOMAIN f }

IsUpper(c) == c \in Range(UpperLetters)

IsLower(c) == c \in Range(LowerLetters)

IsAlpha(c) == IsUpper(c) \/ IsLower(c)

IsDigit(c) == c \in Range(Digits)

\* re's \s on the characters of the model
IsSpace(c) == c \in {" ", "\n", "\t", "\r"}

\* re's \w
IsWord(c) == IsAlpha(c) \/ IsDigit(c) \/ c = "_"

IndexIn(c, tbl) == CHOOSE i \in DOMAIN tbl : tbl[i] = c

LowerChar(c) == IF IsUpper(c) THEN LowerLetters[IndexIn(c, UpperLetters)] ELSE c

UpperChar(c) == IF IsLower(c) THEN UpperLetters[IndexIn(c, LowerLetters)] ELSE c

\* str.lower()
Lower(s) == [i \in 1..Len(s) |-> LowerChar(s[i])]

\* str.upper()
Upper(s) == [i \in 1..Len(s) |-> UpperChar(s[i])]

DigitVal(c) == IndexIn(c, Digits) - 1

\* s[i:] begins with pat (i is 1-based)
StartsAt(s, i, pat) ==
  /\ i >= 1
  /\ i + Len(pat) - 1 <= Len(s)
  /\ \A j \in 1..Len(pat) : s[i + j - 1] = pat[j]

\* str.endswith
EndsWith(s, suf) == Len(suf) <= Len(s) /\ StartsAt(s, Len(s) - Len(suf) + 1, suf)

\* pat in s
Contains(s, pat) == \E i \in 1..(Len(s) + 1) : StartsAt(s, i, pat)

\* s[a-1:b] of Python for 1-based a..b, empty when a > b
Slice(s, a, b) == IF a > b THEN <<>> ELSE SubSeq(s, a, b)

\* str.strip()
LStripIdx(s) ==
  IF \E i \in 1..Len(s) : ~IsSpace(s[i])
  THEN CHOOSE i \in 1..Len(s) : ~IsSpace(s[i]) /\ \A j \in 1..(i-1) : IsSpace(s[j])
  ELSE Len(s) + 1

RStripIdx(s) ==
  IF \E i \in 1..Len(s) : ~IsSpace(s[i])
  THEN CHOOSE i \in 1..Len(s) : ~IsSpace(s[i]) /\ \A j \in (i+1)..Len(s) : IsSpace(s[j])
  ELSE 0

Strip(s) == Slice(s, LStripIdx(s), RStripIdx(s))

\* sep.join(parts)
RECURSIVE Join(_, _)
Join(parts, sep) ==
  IF Len(parts) = 0 THEN <<>>
  ELSE IF Len(parts) = 1 THEN parts[1]
  ELSE parts[1] \o sep \o Join(Tail(parts), sep)

\* An optional JSON string: body.get(k) gives None when the key is absent
\* or null.
None == [s |-> <<>>, some |-> FALSE]

Some(s) == [s |-> s, some |-> TRUE]

\* Python truthiness of an optional string
Truthy(o) == o.some /\ Len(o.s) > 0

\* (o or "")
OrEmpty(o) == IF Truthy(o) THEN o.s ELSE <<>>

\* ------------------------------------------------------------------------
\* JSON values.  A number is the decimal m / 10^e in lowest form (e = 0, or
\* the last digit of m is not 0); "int" and "float" are json.loads's two
\* number types; "other" is a list or an object, kept by its Python str().
\* ------------------------------------------------------------------------

JNull == [s |-> <<>>, t |-> "null", m |-> 0, e |-> 0]

JStr(s) == [s |-> s, t |-> "str", m |-> 0, e |-> 0]

JInt(n) == [s |-> <<>>, t |-> "int", m |-> n, e |-> 0]

RECURSIVE Canon(_, _)
\* the float m / 10^e, in lowest form
Canon(m, e) ==
  IF e > 0 /\ m % 10 = 0 THEN Canon(m \div 10, e - 1)
  ELSE [s |-> <<>>, t |-> "float", m |-> m, e |-> e]

JBool(b) == [s |-> <<>>, t |-> "bool", m |-> IF b THEN 1 ELSE 0, e |-> 0]

JOther(repr) == [s |-> repr, t |-> "other", m |-> 0, e |-> 0]

\* bool(v) of Python
PyTruthy(v) ==
  CASE v.t = "null" -> FALSE
    [] v.t = "str" -> Len(v.s) > 0
    [] v.t \in {"int", "float", "bool"} -> v.m # 0
    [] OTHER -> v.s \notin { <<"[", "]">>, <<"{", "}">> }

RECURSIVE NatStr(_)
\* str(n) for an integer n >= 0
NatStr(n) ==
  IF n < 10 THEN <<Digits[n + 1]>>
  ELSE NatStr(n \div 10) \o <<Digits[(n % 10) + 1]>>

RECURSIVE Pow10(_)
Pow10(e) == IF e = 0 THEN 1 ELSE 10 * Pow10(e - 1)

RECURSIVE ZeroPad(_, _)
\* s left-padded with "0" to width w
ZeroPad(s, w) == IF Len(s) >= w THEN s ELSE ZeroPad(<<"0">> \o s, w)

\* str(v) of Python, for the floats that print in positional notation
PyStr(v) ==
  LET a == IF v.m < 0 THEN -v.m ELSE v.m
      sign == IF v.m < 0 THEN <<"-">> ELSE <<>>
  IN CASE v.t = "null" -> <<"N","o","n","e">>
       [] v.t = "bool" -> IF v.m = 1 THEN <<"T","r","u","e">> ELSE <<"F","a","l","s","e">>
       [] v.t = "int" -> sign \o NatStr(a)
       [] v.t = "float" ->
            sign \o NatStr(a \div Pow10(v.e)) \o <<".">> \o
            (IF v.e = 0 THEN <<"0">> ELSE ZeroPad(NatStr(a % Pow10(v.e)), v.e))
       [] OTHER -> v.s

\* ------------------------------------------------------------------------
\* Normalizer
\* ------------------------------------------------------------------------

RECURSIVE DigitsVal(_)
\* int(ds) for a string of decimal digits ("" counts 0)
DigitsVal(ds) ==
  IF Len(ds) = 0 THEN 0
  ELSE 10 * DigitsVal(SubSeq(ds, 1, Len(ds) - 1)) + DigitVal(ds[Len(ds)])

\* float(s) of Python on a string: surrounding whitespace, a sign, digits
\* with at most one point.  JNull stands for ValueError.  (Exponents,
\* underscores, "inf" and "nan" are outside the strings of the model.)
PyFloat(s0) ==
  LET s == Strip(s0)
      signed == Len(s) > 0 /\ s[1] \in {"+", "-"}
      body == IF signed THEN Tail(s) ELSE s
      dots == { i \in 1..Len(body) : body[i] = "." }
      dot == IF dots = {} THEN Len(body) + 1 ELSE CHOOSE i \in dots : TRUE
      ip == Slice(body, 1, dot - 1)
      fp == Slice(body, dot + 1, Len(body))
      valid == /\ \A i \in 1..Len(body) : IsDigit(body[i]) \/ body[i] = "."
               /\ Cardinality(dots) <= 1
               /\ Len(ip) + Len(fp) > 0
      mag == DigitsVal(ip \o fp)
  IN IF valid
     THEN Canon(IF signed /\ s[1] = "-" THEN -mag ELSE mag, Len(fp))
     ELSE JNull

RECURSIVE ReplaceAll(_, _, _)
\* s.replace(pat, rep), pat not empty
ReplaceAll(s, pat, rep) ==
  IF Len(s) = 0 THEN <<>>
  ELSE IF StartsAt(s, 1, pat)
       THEN rep \o ReplaceAll(Slice(s, Len(pat) + 1, Len(s)), pat, rep)
       ELSE <<s[1]>> \o ReplaceAll(Tail(s), pat, rep)

\* _to_float: the amount of a numeric literal, JNull when float() raises
_to_float(num_str) ==
  LET s1 == Strip(num_str)
      s2 == ReplaceAll(s1, <<"G","H","U20B5">>, <<>>)
      s3 == ReplaceAll(s2, <<"G","H","U00A2">>, <<>>)
      s4 == ReplaceAll(s3, <<"G","H","S">>, <<>>)
      s5 == ReplaceAll(s4, <<"G","H","C">>, <<>>)
      s6 == SelectSeq(s5, LAMBDA c : ~IsSpace(c))
      hasComma == Contains(s6, <<",">>)
      hasDot == Contains(s6, <<".">>)
      s7 == IF hasComma /\ hasDot THEN ReplaceAll(s6, <<",">>, <<>>)
            ELSE IF hasComma /\ ~hasDot THEN ReplaceAll(s6, <<",">>, <<".">>)
            ELSE s6
  IN PyFloat(s7)

\* ---- dates ----

IsLeap(y) == (y % 4 = 0 /\ y % 100 # 0) \/ y % 400 = 0

DaysInMonth(y, m) ==
  IF m = 2 THEN (IF IsLeap(y) THEN 29 ELSE 28)
  ELSE IF m \in {4, 6, 9, 11} THEN 30 ELSE 31

\* datetime(y, m, d) raises ValueError unless this holds
ValidDate(y, m, d) ==
  /\ y \in 1..9999
  /\ m \in 1..12
  /\ d >= 1 /\ d <= DaysInMonth(y, m)

\* strftime("%Y-%m-%d"); glibc's %Y does not pad a year below 1000
FormatDate(y, m, d) ==
  NatStr(y) \o <<"-">> \o ZeroPad(NatStr(m), 2) \o <<"-">> \o ZeroPad(NatStr(d), 2)

\* _iso_or_none that formats whatever it is given
_iso_or_none_Unchecked(y, m, d) ==
  IF y >= 1 THEN Some(FormatDate(y, m, d)) ELSE None

\* _iso_or_none on integers: the ISO text of a valid date, else None
_iso_or_none(y, m, d) ==
  IF ValidDate(y, m, d) THEN Some(FormatDate(y, m, d)) ELSE None

MONTHS ==
  << <<<<"j","a","n">>, 1>>,
     <<<<"j","a","n","u","a","r","y">>, 1>>,
     <<<<"f","e","b">>, 2>>,
     <<<<"f","e","b","r","u","a","r","y">>, 2>>,
     <<<<"m","a","r">>, 3>>,
     <<<<"m","a","r","c","h">>, 3>>,
     <<<<"a","p","r">>, 4>>,
     <<<<"a","p","r","i","l">>, 4>>,
     <<<<"m","a","y">>, 5>>,
     <<<<"j","u","n">>, 6>>,
     <<<<"j","u","n","e">>, 6>>,
     <<<<"j","u","l">>, 7>>,
     <<<<"j","u","l","y">>, 7>>,
     <<<<"a","u","g">>, 8>>,
     <<<<"a","u","g","u","s","t">>, 8>>,
     <<<<"s","e","p">>, 9>>,
     <<<<"s","e","p","t">>, 9>>,
     <<<<"s","e","p","t","e","m","b","e","r">>, 9>>,
     <<<<"o","c","t">>, 10>>,
     <<<<"o","c","t","o","b","e","r">>, 10>>,
     <<<<"n","o","v">>, 11>>,
     <<<<"n","o","v","e","m","b","e","r">>, 11>>,
     <<<<"d","e","c">>, 12>>,
     <<<<"d","e","c","e","m","b","e","r">>, 12>> >>

\* MONTHS.get(name): the name looked up as written
MonthOf_CaseSensitive(name) ==
  LET k == name
  IN IF \E i \in DOMAIN MONTHS : MONTHS[i][1] = k
     THEN MONTHS[CHOOSE i \in DOMAIN MONTHS : MONTHS[i][1] = k][2]
     ELSE 0

\* MONTHS.get(name.lower()), 0 for a name that is no key
MonthOf(name) ==
  LET k == Lower(name)
  IN IF \E i \in DOMAIN MONTHS : MONTHS[i][1] = k
     THEN MONTHS[CHOOSE i \in DOMAIN MONTHS : MONTHS[i][1] = k][2]
     ELSE 0

MinOf(S) == CHOOSE x \in S : \A y \in S : x <= y

\* s has a word character at index i
WordAt(s, i) == i \in 1..Len(s) /\ IsWord(s[i])

\* re's \b between s[i-1] and s[i]
WordBoundary(s, i) == WordAt(s, i - 1) # WordAt(s, i)

DigitAt(s, i) == i \in 1..Len(s) /\ IsDigit(s[i])

\* the first index >= i whose character is not in the class P (Len(s)+1 if none)
RunEnd(s, i, P(_)) ==
  IF \E j \in i..Len(s) : ~P(s[j])
  THEN MinOf({ j \in i..Len(s) : ~P(s[j]) })
  ELSE Len(s) + 1

\* \d{4}\b at index i
Year4At(s, i) ==
  /\ \A j \in i..(i + 3) : DigitAt(s, j)
  /\ ~WordAt(s, i + 4)

\* (?:st|nd|rd|th) at index i
OrdinalAt(s, i) ==
  \E suf \in { <<"s","t">>, <<"n","d">>, <<"r","d">>, <<"t","h">> } : StartsAt(s, i, suf)

IsDateSep(c) == c \in {"/", "-", "."}

IsCommaSpace(c) == c = "," \/ IsSpace(c)

\* _parse_yyyy_sep_dd: the leftmost match of
\* \b(\d{4})[\/\-.](\d{1,2})[\/\-.](\d{1,2})\b
_parse_yyyy_sep_dd(s) ==
  LET SepAt(i) == i \in 1..Len(s) /\ IsDateSep(s[i])
      MLen(i) == IF DigitAt(s, i) /\ DigitAt(s, i + 1) /\ SepAt(i + 2) THEN 2
                 ELSE IF DigitAt(s, i) /\ SepAt(i + 1) THEN 1 ELSE 0
      DLen(i) == IF DigitAt(s, i) /\ DigitAt(s, i + 1) /\ ~WordAt(s, i + 2) THEN 2
                 ELSE IF DigitAt(s, i) /\ ~WordAt(s, i + 1) THEN 1 ELSE 0
      MatchAt(i) == /\ WordBoundary(s, i)
                    /\ \A j \in i..(i + 3) : DigitAt(s, j)
                    /\ SepAt(i + 4)
                    /\ MLen(i + 5) > 0
                    /\ DLen(i + 6 + MLen(i + 5)) > 0
      hits == { i \in 1..Len(s) : MatchAt(i) }
  IN IF hits = {} THEN None
     ELSE LET i == MinOf(hits)
              ml == MLen(i + 5)
              dl == DLen(i + 6 + ml)
          IN _iso_or_none(DigitsVal(SubSeq(s, i, i + 3)),
                          DigitsVal(SubSeq(s, i + 5, i + 4 + ml)),
                          DigitsVal(SubSeq(s, i + 6 + ml, i + 5 + ml + dl)))

\* _parse_dd_mon_yyyy: the leftmost match of
\* \b(\d{1,2})(?:st|nd|rd|th)?\s+([A-Za-z]{3,9})[,\s]+(\d{4})\b
_parse_dd_mon_yyyy(s) ==
  LET DEnd(i) == IF DigitAt(s, i + 1) THEN i + 2 ELSE i + 1
      WsStart(i) == IF OrdinalAt(s, DEnd(i)) THEN DEnd(i) + 2 ELSE DEnd(i)
      MonStart(i) == RunEnd(s, WsStart(i), IsSpace)
      MonEnd(i) == RunEnd(s, MonStart(i), IsAlpha)
      YearStart(i) == RunEnd(s, MonEnd(i), IsCommaSpace)
      MatchAt(i) == /\ WordBoundary(s, i)
                    /\ DigitAt(s, i)
                    /\ MonStart(i) > WsStart(i)
                    /\ MonEnd(i) - MonStart(i) \in 3..9
                    /\ YearStart(i) > MonEnd(i)
                    /\ Year4At(s, YearStart(i))
      hits == { i \in 1..Len(s) : MatchAt(i) }
  IN IF hits = {} THEN None
     ELSE LET i == MinOf(hits)
              mo == MonthOf(SubSeq(s, MonStart(i), MonEnd(i) - 1))
          IN IF mo = 0 THEN None
             ELSE _iso_or_none(DigitsVal(SubSeq(s, YearStart(i), YearStart(i) + 3)),
                               mo,
                               DigitsVal(SubSeq(s, i, DEnd(i) - 1)))

\* _parse_mon_dd_yyyy: the leftmost match of
\* \b([A-Za-z]{3,9})\s+(\d{1,2})(?:st|nd|rd|th)?[,\s]+(\d{4})\b
_parse_mon_dd_yyyy(s) ==
  LET MonEnd(i) == RunEnd(s, i, IsAlpha)
      DStart(i) == RunEnd(s, MonEnd(i), IsSpace)
      DEnd(i) == IF DigitAt(s, DStart(i) + 1) THEN DStart(i) + 2 ELSE DStart(i) + 1
      SepStart(i) == IF OrdinalAt(s, DEnd(i)) THEN DEnd(i) + 2 ELSE DEnd(i)
      YearStart(i) == RunEnd(s, SepStart(i), IsCommaSpace)
      MatchAt(i) == /\ WordBoundary(s, i)
                    /\ MonEnd(i) - i \in 3..9
                    /\ DStart(i) > MonEnd(i)
                    /\ DigitAt(s, DStart(i))
                    /\ YearStart(i) > SepStart(i)
                    /\ Year4At(s, YearStart(i))
      hits == { i \in 1..Len(s) : MatchAt(i) }
  IN IF hits = {} THEN None
     ELSE LET i == MinOf(hits)
              mo == MonthOf(SubSeq(s, i, MonEnd(i) - 1))
          IN IF mo = 0 THEN None
             ELSE _iso_or_none(DigitsVal(SubSeq(s, YearStart(i), YearStart(i) + 3)),
                               mo,
                               DigitsVal(SubSeq(s, DStart(i), DEnd(i) - 1)))

\* a or b of Python on optional strings
OrElse(a, b) == IF Truthy(a) THEN a ELSE b

\* _parse_date_iso_any
_parse_date_iso_any(s) ==
  OrElse(_parse_yyyy_sep_dd(s), OrElse(_parse_dd_mon_yyyy(s), _parse_mon_dd_yyyy(s)))

\* re.fullmatch(r'\d{4}-\d{2}-\d{2}', s)
IsIsoShape(s) ==
  /\ Len(s) = 10
  /\ \A i \in {1, 2, 3, 4, 6, 7, 9, 10} : IsDigit(s[i])
  /\ s[5] = "-" /\ s[8] = "-"

\* _iso_date of a JSON value
_iso_date(v) ==
  IF ~PyTruthy(v) THEN None
  ELSE IF IsIsoShape(PyStr(v))
       THEN _iso_or_none(DigitsVal(SubSeq(v.s, 1, 4)),
                         DigitsVal(SubSeq(v.s, 6, 7)),
                         DigitsVal(SubSeq(v.s, 9, 10)))
       ELSE _parse_date_iso_any(PyStr(v))

\* an optional string as a JSON value
OptJson(o) == IF o.some THEN JStr(o.s) ELSE JNull

\* _norm_currency of a JSON value
_norm_currency(v) ==
  IF ~PyTruthy(v) THEN JNull
  ELSE LET c == Strip(Upper(PyStr(v)))
       IN CASE c \in { <<"U","S","D">>, <<"E","U","R">>, <<"G","B","P">>, <<"G","H","S">>, <<"N","G","N">>, <<"Z","A","R">> } -> JStr(c)
            [] c \in { <<"$">>, <<"U","S","D","$">> } -> JStr(<<"U","S","D">>)
            [] c \in { <<"U20AC">>, <<"E","U","R","U20AC">> } -> JStr(<<"E","U","R">>)
            [] c \in { <<"U00A3">>, <<"G","B","P","U00A3">> } -> JStr(<<"G","B","P">>)
            [] c \in { <<"G","H","U20B5">>, <<"G","H","U00A2">>, <<"G","H","C">> } -> JStr(<<"G","H","S">>)
            [] c \in { <<"U20A6">> } -> JStr(<<"N","G","N">>)
            [] OTHER -> JStr(c)

\* ------------------------------------------------------------------------
\* Rule-based extractor
\* ------------------------------------------------------------------------

SCHEMA_KEYS ==
  <<"provider", "amount", "currency", "due_date",
    "account_number", "invoice_number", "period_start", "period_end">>

\* re.search(r'\bw\b', s)
HasWord(s, w) ==
  \E i \in 1..Len(s) :
    StartsAt(s, i, w) /\ WordBoundary(s, i) /\ WordBoundary(s, i + Len(w))

\* the currency marker of _rule_fallback, in the order GHS, USD, EUR, GBP
RuleCurrency(text) ==
  LET low == Lower(text)
  IN IF \/ HasWord(low, <<"g","h","s">>) \/ Contains(low, <<"g","h","U20B5">>)
        \/ Contains(low, <<"g","h","U00A2">>) \/ Contains(low, <<"g","h","c">>)
     THEN JStr(<<"G","H","S">>)
     ELSE IF HasWord(text, <<"U","S","D">>) \/ Contains(text, <<"$">>) THEN JStr(<<"U","S","D">>)
     ELSE IF HasWord(text, <<"E","U","R">>) \/ Contains(text, <<"U20AC">>) THEN JStr(<<"E","U","R">>)
     ELSE IF HasWord(text, <<"G","B","P">>) \/ Contains(text, <<"U00A3">>) THEN JStr(<<"G","B","P">>)
     ELSE JNull

\* the amount labels: a first word, \s*, one of its second words
AmountLabels ==
  { <<<<"a","m","o","u","n","t">>, <<"d","u","e">>>>, <<<<"a","m","o","u","n","t">>, <<"p","a","y","a","b","l","e">>>>,
    <<<<"t","o","t","a","l">>, <<"d","u","e">>>>, <<<<"t","o","t","a","l">>, <<"a","m","o","u","n","t">>>>, <<<<"t","o","t","a","l">>, <<"p","a","y","a","b","l","e">>>>,
    <<<<"b","a","l","a","n","c","e">>, <<"d","u","e">>>>, <<<<"g","r","a","n","d">>, <<"t","o","t","a","l">>>> }

\* the index after the label that matches at index i of the lower-cased text
\* low, 0 if no label matches there
LabelEndAt(low, i) ==
  LET EndOf(l) == LET j == RunEnd(low, i + Len(l[1]), IsSpace)
                  IN IF StartsAt(low, i, l[1]) /\ StartsAt(low, j, l[2])
                     THEN j + Len(l[2]) ELSE 0
      ends == { EndOf(l) : l \in AmountLabels } \ {0}
  IN IF ends = {} THEN 0 ELSE MinOf(ends)

\* [0-9]{3} at index i
Digits3At(s, i) == \A j \in i..(i + 2) : DigitAt(s, j)

\* [.,][0-9]{2} at index i
DecimalsAt(s, i) ==
  /\ i \in 1..Len(s) /\ s[i] \in {".", ","}
  /\ DigitAt(s, i + 1) /\ DigitAt(s, i + 2)

RECURSIVE GroupCount(_, _)
\* how many times (?:[,\s][0-9]{3}) matches in a row from index i
GroupCount(s, i) ==
  IF i \in 1..Len(s) /\ IsCommaSpace(s[i]) /\ Digits3At(s, i + 1)
  THEN 1 + GroupCount(s, i + 4) ELSE 0

\* the first match, in s, of
\* ([0-9]{1,3}(?:[,\s][0-9]{3})*(?:[.,][0-9]{2})|[0-9]+(?:[.,][0-9]{2})?)
\* as an optional string
NumericToken(s) ==
  LET digs == { i \in 1..Len(s) : IsDigit(s[i]) }
      p == MinOf(digs)
      \* first alternative: the backtracking order is 3, 2, 1 leading digits
      \* and, for each, the most groups first
      Ends1(k) == { p + k + 4 * g + 3 : g \in { h \in 0..GroupCount(s, p + k) :
                                                 DecimalsAt(s, p + k + 4 * h) } }
      Ok1(k) == (\A j \in p..(p + k - 1) : DigitAt(s, j)) /\ Ends1(k) # {}
      End1 == IF Ok1(3) THEN CHOOSE x \in Ends1(3) : \A y \in Ends1(3) : y <= x
              ELSE IF Ok1(2) THEN CHOOSE x \in Ends1(2) : \A y \in Ends1(2) : y <= x
              ELSE IF Ok1(1) THEN CHOOSE x \in Ends1(1) : \A y \in Ends1(1) : y <= x
              ELSE 0
      \* second alternative: all the digits, then the decimals if present
      q == RunEnd(s, p, IsDigit)
      End2 == IF DecimalsAt(s, q) THEN q + 3 ELSE q
  IN IF digs = {} THEN None
     ELSE Some(SubSeq(s, p, (IF End1 > 0 THEN End1 ELSE End2) - 1))

TailChars == 160

RECURSIVE RuleAmountFrom(_, _, _)
\* the finditer loop of _rule_fallback over the label matches that start at
\* index i or later (low is text lower-cased, for re.I): the amount of the
\* first label that has a numeric token in the 160 characters after it
RuleAmountFrom(text, low, i) ==
  LET starts == { j \in i..Len(text) : LabelEndAt(low, j) > 0 }
      e == LabelEndAt(low, MinOf(starts))
      n == NumericToken(Slice(text, e, IF e + TailChars - 1 < Len(text)
                                       THEN e + TailChars - 1 ELSE Len(text)))
  IN IF starts = {} THEN JNull
     ELSE IF n.some THEN _to_float(n.s)
     ELSE RuleAmountFrom(text, low, e)

RECURSIVE SplitLines(_)
\* str.splitlines() for the line breaks \n, \r and \r\n
SplitLines(s) ==
  LET brk == { i \in 1..Len(s) : s[i] \in {"\n", "\r"} }
      b == MinOf(brk)
      w == IF s[b] = "\r" /\ b < Len(s) /\ s[b + 1] = "\n" THEN 2 ELSE 1
  IN IF Len(s) = 0 THEN <<>>
     ELSE IF brk = {} THEN <<s>>
     ELSE <<Slice(s, 1, b - 1)>> \o SplitLines(Slice(s, b + w, Len(s)))

\* re.sub(r'\b(invoice|bill|statement)\b', '', s, flags=re.I): s without the
\* characters of those whole words
DropWords(s) ==
  LET low == Lower(s)
      words == { <<"i","n","v","o","i","c","e">>, <<"b","i","l","l">>, <<"s","t","a","t","e","m","e","n","t">> }
      Match(i, w) == /\ StartsAt(low, i, w)
                     /\ WordBoundary(s, i) /\ WordBoundary(s, i + Len(w))
      Dropped(j) == \E w \in words : \E i \in 1..j :
                       j < i + Len(w) /\ Match(i, w)
      tagged == [j \in 1..Len(s) |-> <<s[j], Dropped(j)>>]
      kept == SelectSeq(tagged, LAMBDA p : ~p[2])
  IN [j \in 1..Len(kept) |-> kept[j][1]]

HeadLines == 10

\* the provider of _rule_fallback: the longest line (the first of them) among
\* the first 10, the words invoice, bill and statement removed
RuleProvider(text) ==
  LET all == SplitLines(text)
      head == Join(SubSeq(all, 1, IF Len(all) < HeadLines THEN Len(all) ELSE HeadLines),
                   <<"\n">>)
      kept == SelectSeq(SplitLines(DropWords(head)),
                        LAMBDA ln : \E i \in 1..Len(ln) : IsAlpha(ln[i]))
      lines == [i \in 1..Len(kept) |-> Strip(kept[i])]
      best == CHOOSE i \in 1..Len(lines) :
                /\ \A j \in 1..Len(lines) : Len(lines[j]) <= Len(lines[i])
                /\ \A j \in 1..(i - 1) : Len(lines[j]) < Len(lines[i])
  IN IF Len(lines) = 0 THEN JNull ELSE JStr(lines[best])

\* _rule_fallback
_rule_fallback(text) ==
  [k \in Range(SCHEMA_KEYS) |->
     CASE k = "currency" -> RuleCurrency(text)
       [] k = "amount" -> RuleAmountFrom(text, Lower(text), 1)
       [] k = "due_date" -> OptJson(_parse_date_iso_any(text))
       [] k = "provider" -> RuleProvider(text)
       [] OTHER -> JNull]

\* ------------------------------------------------------------------------
\* OCR
\* ------------------------------------------------------------------------

EXTS == << <<".","p","d","f">>, <<".","t","i","f">>, <<".","t","i","f","f">>, <<".","p","n","g">>, <<".","j","p","g">>, <<".","j","p","e","g">> >>

\* _ext without lower-casing the name
_ext_CaseSensitive(name) ==
  LET hits == { i \in DOMAIN EXTS : EndsWith(name, EXTS[i]) }
  IN IF hits = {} THEN <<>> ELSE EXTS[MinOf(hits)]

\* _ext: the first extension of EXTS the lower-cased name ends with, else ""
_ext(name) ==
  LET low == Lower(name)
      hits == { i \in DOMAIN EXTS : EndsWith(low, EXTS[i]) }
  IN IF hits = {} THEN <<>> ELSE EXTS[MinOf(hits)]

\* the extensions lambda_handler sends to the asynchronous mode
AsyncExts == { <<".","p","d","f">>, <<".","t","i","f">>, <<".","t","i","f","f">> }

\* An OCR block: BlockType, Text (None when the block has none) and Page
\* (0 when the block has none).
Block(type, txt, page) == [BlockType |-> type, Text |-> txt, Page |-> page]

\* _collect_text_from_blocks: the LINE texts joined by newlines, and the
\* highest page number (1 when no block names a page)
_collect_text_from_blocks(blocks) ==
  LET lineBlocks == SelectSeq(blocks, LAMBDA b : b.BlockType = "LINE" /\ b.Text.some)
      lines == [i \in 1..Len(lineBlocks) |-> lineBlocks[i].Text.s]
      pgs == { blocks[i].Page : i \in DOMAIN blocks } \ {0}
  IN [text |-> Join(lines, <<"\n">>),
      pages |-> IF pgs = {} THEN 1 ELSE CHOOSE p \in pgs : \A q \in pgs : q <= p]

\* ------------------------------------------------------------------------
\* Model-assisted extractor
\*
\* The text of a reply is a sequence of tokens: "prose" (characters other
\* than braces that form no JSON), "nl" (the newline that joins two text
\* segments), "lbrace" and "rbrace" (a brace outside any JSON object) and
\* "obj" (the text of one JSON object, o).  A field object is a function
\* from its keys to JSON values.
\* ------------------------------------------------------------------------

EmptyObj == [k \in {} |-> JNull]

Tok(kind) == [o |-> EmptyObj, k |-> kind]

ObjTok(obj) == [o |-> obj, k |-> "obj"]

\* _extract_json_anywhere: re.search(r'\{[\s\S]*\}') spans the first "{" to
\* the last "}"; json.loads accepts the span only when it is one object.
_extract_json_anywhere(toks) ==
  LET opens == { i \in DOMAIN toks : toks[i].k \in {"lbrace", "obj"} }
      closes == { i \in DOMAIN toks : toks[i].k \in {"rbrace", "obj"} }
      first == MinOf(opens)
      last == CHOOSE i \in closes : \A j \in closes : j <= i
  IN IF opens = {} \/ closes = {} THEN [o |-> EmptyObj, found |-> FALSE]
     ELSE IF last < first THEN [o |-> EmptyObj, found |-> FALSE]
     ELSE IF first = last THEN [o |-> toks[first].o, found |-> TRUE]
     ELSE [o |-> EmptyObj, found |-> FALSE]

\* One item of the "content" list of a structured reply: type is "text",
\* another block type, or "nodict" for an item that is no object; text is
\* "str" (with its tokens), "absent" or "nonstr".
Content(type, text, toks) == [text |-> text, type |-> type, toks |-> toks]

\* The reply of the completion service, as _llm_extract_fields sees it:
\*   "invoke_raises"  invoke_model raises
\*   "read_raises"    reading or decoding the body raises
\*   "text"           the body is no JSON document; toks is its text
\*   "nondict"        the body is JSON, not an object; toks is its text
\*   "dict"           the body is the JSON object obj, "content" not a list
\*   "structured"     the body is the JSON object obj whose "content" is
\*                    the list content
Reply(kind, toks, obj, content) ==
  [kind |-> kind, obj |-> obj, toks |-> toks, content |-> content]

\* _llm_extract_fields: raised, or the object it returns
_llm_extract_fields(reply) ==
  LET texts == SelectSeq(reply.content, LAMBDA c : c.type = "text")
      \* "\n".join(all_text) raises TypeError on a text that is no string
      joinRaises == \E i \in DOMAIN texts : texts[i].text = "nonstr"
      all_text == [i \in 1..Len(texts) |->
                     IF texts[i].text = "str" THEN texts[i].toks ELSE <<>>]
      text_block == Join(all_text, <<Tok("nl")>>)
      j1 == _extract_json_anywhere(text_block)
      \* the raw body of a JSON object is that object's text
      raw == IF reply.kind \in {"dict", "structured"} THEN <<ObjTok(reply.obj)>>
             ELSE reply.toks
      j2 == _extract_json_anywhere(raw)
      fromRaw == IF j2.found THEN j2.o ELSE EmptyObj
      parsed ==
        CASE reply.kind = "text" -> fromRaw
          [] reply.kind = "structured" /\ joinRaises -> fromRaw
          [] reply.kind = "structured" /\ j1.found /\ j1.o # EmptyObj -> j1.o
          [] OTHER -> fromRaw
  IN IF reply.kind \in {"invoke_raises", "read_raises"}
     THEN [parsed |-> EmptyObj, raised |-> TRUE]
     ELSE [parsed |-> parsed, raised |-> FALSE]

\* ------------------------------------------------------------------------
\* The inputs of the extract handler: request bodies, OCR documents and
\* completion replies
\* ------------------------------------------------------------------------

TxtTotalDue == <<"T","o","t","a","l"," ","D","u","e",":"," ","G","H","S"," ","4","5","2",".","1","0">>

TxtAcme == <<"A","c","m","e"," ","W","a","t","e","r","\n","A","m","o","u","n","t"," ","d","u","e"," ","$"," ","1",",","2","3","4",".","5","6","\n","M","a","r","c","h"," ","5",","," ","2","0","2","4">>

TxtHello == <<"h","e","l","l","o">>

RawTexts == { TxtTotalDue, TxtAcme, <<" ","h","e","l","l","o","\n">> }

KeyNames == { <<"A",".","P","d","f">>, <<"x",".","t","i","f">>, <<"s",".","T","I","F","F">>, <<"p",".","p","n","g">>, <<"a",".","p","d","f",".","j","p","g">>, <<"p","d","f">> }

Request(raw, bucket, key) == [bucket |-> bucket, key |-> key, raw_text |-> raw]

\* the bodies of the extract requests
Requests ==
  { Request(None, Some(<<"b">>), Some(k)) : k \in KeyNames }
  \cup { Request(Some(<<>>), Some(<<"b">>), Some(<<"a",".","p","d","f">>)),
          Request(Some(<<" "," ">>), Some(<<"b">>), Some(<<"p",".","p","n","g">>)) }
  \cup { Request(r, b, k) :
           r \in { None, Some(<<" ">>) },
           b \in { None, Some(<<>>), Some(<<"b">>) },
           k \in { None, Some(<<>>) } }
  \cup { Request(None, b, Some(<<"a",".","p","d","f">>)) : b \in { None, Some(<<>>) } }
  \cup { Request(Some(r), None, None) : r \in RawTexts }
  \cup { Request(Some(TxtTotalDue), Some(<<"b">>), Some(<<"a",".","p","d","f">>)) }

\* the block lists the OCR service answers with
Docs ==
  { <<>>,
    << Block("LINE", Some(TxtTotalDue), 0),
       Block("WORD", Some(<<"T","o","t","a","l">>), 1) >>,
    << Block("LINE", Some(<<"A","c","m","e"," ","W","a","t","e","r">>), 1),
       Block("LINE", Some(<<"A","m","o","u","n","t"," ","d","u","e"," ","$"," ","1",",","2","3","4",".","5","6"," ","b","y"," ","M","a","r","c","h"," ","5",","," ","2","0","2","4">>), 2) >> }

JobStatuses == { "IN_PROGRESS", "SUCCEEDED", "FAILED", "PARTIAL_SUCCESS" }

\* the field objects a reply can carry
ObjFull ==
  [k \in Range(SCHEMA_KEYS) |->
     CASE k = "provider" -> JStr(<<"A","c","m","e">>)
       [] k = "amount" -> Canon(9950, 2)
       [] k = "currency" -> JStr(<<"g","h","c">>)
       [] k = "due_date" -> JStr(<<"2","0","2","4","-","0","3","-","0","5">>)
       [] k = "account_number" -> JStr(<<"A","-","1">>)
       [] k = "invoice_number" -> JInt(7)
       [] k = "period_start" -> JStr(<<"2","0","2","4","-","0","2","-","0","1">>)
       [] k = "period_end" -> JStr(<<"F","e","b"," ","2","9",","," ","2","0","2","4">>)]

ObjPartial ==
  [k \in {"provider", "amount"} |->
     IF k = "provider" THEN JStr(<<"A","c","m","e">>) ELSE JStr(<<"1",",","2","3","4",".","5","6">>)]

ObjOdd ==
  [k \in {"amount", "currency", "due_date", "period_start", "period_end", "note"} |->
     CASE k = "amount" -> JOther(<<"[","1",","," ","2","]">>)
       [] k = "currency" -> JInt(5)
       [] k = "due_date" -> JStr(<<"2","0","2","4","-","0","2","-","3","1">>)
       [] k = "period_start" -> JBool(TRUE)
       [] k = "period_end" -> JStr(<<"5","t","h"," ","M","a","r","c","h"," ","2","0","2","4">>)
       [] OTHER -> JStr(<<"x">>)]

\* dates that need care: no such day, a year of three digits
ObjDates ==
  [k \in {"due_date", "period_start", "period_end"} |->
     CASE k = "due_date" -> JStr(<<"3","1"," ","F","e","b"," ","2","0","2","4">>)
       [] k = "period_start" -> JStr(<<"0","9","9","9","-","0","1","-","0","1">>)
       [] OTHER -> JStr(<<"2","0","2","4","-","0","3","-","0","5">>)]

ModelObjects == { ObjFull, ObjPartial, ObjOdd, ObjDates, EmptyObj }

\* the texts of a reply, or of one of its text segments
ReplyTexts ==
  { <<>>,
    << Tok("prose") >>,
    << Tok("lbrace"), Tok("prose") >>,
    << Tok("rbrace"), Tok("prose"), Tok("lbrace") >>,
    << Tok("lbrace"), ObjTok(ObjFull), Tok("rbrace") >>,
    << ObjTok(ObjFull), Tok("prose"), ObjTok(ObjPartial) >> }
  \cup { << Tok("prose"), ObjTok(o), Tok("prose") >> : o \in ModelObjects }

\* the items of a "content" list
ContentItems ==
  { Content("text", "str", << Tok("prose") >>),
    Content("text", "str", << Tok("prose"), ObjTok(ObjPartial) >>),
    Content("text", "str", << ObjTok(EmptyObj) >>),
    Content("text", "absent", <<>>),
    Content("text", "nonstr", <<>>),
    Content("tool_use", "absent", <<>>),
    Content("nodict", "absent", <<>>) }

MaxContent == 2

ContentLists == UNION { [1..n -> ContentItems] : n \in 0..MaxContent }

\* the JSON object of a structured reply: its "content" list and the
\* other keys of the completion service's envelope
Envelope(content) ==
  [k \in {"content", "role", "type"} |->
     CASE k = "content" -> JOther(IF content = <<>> THEN <<"[","]">> ELSE <<"[",".",".",".","]">>)
       [] k = "role" -> JStr(<<"a","s","s","i","s","t","a","n","t">>)
       [] OTHER -> JStr(<<"m","e","s","s","a","g","e">>)]

Replies ==
  { Reply("invoke_raises", <<>>, EmptyObj, <<>>),
    Reply("read_raises", <<>>, EmptyObj, <<>>) }
  \cup { Reply("text", tk, EmptyObj, <<>>) : tk \in ReplyTexts }
  \cup { Reply("nondict", tk, EmptyObj, <<>>) :
           tk \in { << Tok("prose") >>,
                    << Tok("prose"), ObjTok(ObjPartial), Tok("prose") >>,
                    << Tok("prose"), ObjTok(ObjFull), Tok("prose"),
                       ObjTok(ObjPartial), Tok("prose") >> } }
  \cup { Reply("dict", <<>>, o, <<>>) : o \in ModelObjects }
  \cup { Reply("structured", <<>>, Envelope(c), c) : c \in ContentLists }

\* ------------------------------------------------------------------------
\* The extract handler (lambda_handler of ExtractBillFieldsFn)
\* ------------------------------------------------------------------------

\* lines 324-327: float(amount), and _to_float(str(amount)) when it raises
NormAmount(v) ==
  CASE v.t = "null" -> JNull
    [] v.t \in {"int", "float", "bool"} -> Canon(v.m, v.e)
    [] v.t = "str" -> IF PyFloat(v.s) # JNull THEN PyFloat(v.s) ELSE _to_float(v.s)
    [] OTHER -> _to_float(PyStr(v))

\* lines 322-323 with one schema key left out of the defaulting loop
Defaulted_OneKeyMissed(fields) ==
  [k \in DOMAIN fields \cup (Range(SCHEMA_KEYS) \ {"invoice_number"}) |->
     IF k \in DOMAIN fields THEN fields[k] ELSE JNull]

\* lines 322-323: every schema key defaulted to null
Defaulted(fields) ==
  [k \in DOMAIN fields \cup Range(SCHEMA_KEYS) |->
     IF k \in DOMAIN fields THEN fields[k] ELSE JNull]

\* lines 324-330: the amount, the currency and the dates normalized
Coerced(fields) ==
  [k \in DOMAIN fields |->
     CASE k = "amount" -> NormAmount(fields[k])
       [] k = "currency" -> _norm_currency(fields[k])
       [] k \in {"due_date", "period_start", "period_end"} -> OptJson(_iso_date(fields[k]))
       [] OTHER -> fields[k]]

\* lines 331-332 with the period built as soon as one bound is there
WithPeriod_EitherBound(fields) ==
  [k \in DOMAIN fields \cup {"period"} |->
     IF k = "period"
     THEN (IF PyTruthy(fields["period_start"]) \/ PyTruthy(fields["period_end"])
           THEN JStr(fields["period_start"].s \o <<" ","t","o"," ">> \o fields["period_end"].s)
           ELSE JNull)
     ELSE fields[k]]

\* lines 331-332: the period derived from the normalized bounds
WithPeriod(fields) ==
  [k \in DOMAIN fields \cup {"period"} |->
     IF k = "period"
     THEN (IF PyTruthy(fields["period_start"]) /\ PyTruthy(fields["period_end"])
           THEN JStr(fields["period_start"].s \o <<" ","t","o"," ">> \o fields["period_end"].s)
           ELSE JNull)
     ELSE fields[k]]

\* lines 321-332, in the order of the code
Normalize(fields) ==
  CHOOSE out \in { WithPeriod(n) : n \in { Coerced(d) : d \in { Defaulted(fields) } } } : TRUE

\* lines 308-319 with the rule-based fields filling what the model omitted
ChooseFields_Merged(txt, reply) ==
  LET r == _llm_extract_fields(reply)
      fields == IF r.raised THEN EmptyObj ELSE r.parsed
      fallback == fields = EmptyObj
      rule == _rule_fallback(txt)
  IN [fields |-> [k \in DOMAIN fields \cup DOMAIN rule |->
                    IF k \in DOMAIN fields THEN fields[k] ELSE rule[k]],
      rule |-> fallback,
      llm |-> r]

\* lines 308-319: the model-assisted extractor first, the rule-based one
\* when it raised or returned the empty object
ChooseFields(txt, reply) ==
  LET r == _llm_extract_fields(reply)
      fields == IF r.raised THEN EmptyObj ELSE r.parsed
      fallback == fields = EmptyObj
  IN [fields |-> IF fallback THEN _rule_fallback(txt) ELSE fields,
      rule |-> fallback,
      llm |-> r]

PreviewChars == 4000

MetaKeys == {"pages", "source", "text_preview", "found_by"}

\* _resp(code, obj)
Resp(code, obj) == [body |-> obj, statusCode |-> code]

\* lines 338-344: the fields, then the acquisition metadata over them
OkBody(fields, pgs, src, txt) ==
  [k \in DOMAIN fields \cup MetaKeys |->
     CASE k = "pages" -> JInt(pgs)
       [] k = "source" -> JOther(<<src>>)
       [] k = "text_preview" ->
            JStr(Slice(txt, 1, IF Len(txt) < PreviewChars THEN Len(txt) ELSE PreviewChars))
       [] k = "found_by" -> JOther(<<"llm_primary_with_rule_fallback">>)
       [] OTHER -> fields[k]]

ErrorBody(msg) == [k \in {"error"} |-> JStr(msg)]

NoResp == Resp(0, EmptyObj)

MsgProvide == <<"Provide raw_text or {bucket,key}.">>

MsgJobEnded(status) == <<"Textract job ended with status: ", status>>

MsgNotFinished == <<"Textract async job not finished after 60s">>

MsgTextract == <<"textract client error">>

NoCalls == [rule |-> 0, start |-> 0, sync |-> 0, fetch |-> 0, invoke |-> 0]

NoReply == Reply("none", <<>>, EmptyObj, <<>>)

NoLlm == [parsed |-> EmptyObj, raised |-> FALSE]

VARIABLES
  pc,          \* where the extract handler is: "idle", "start", "poll",
               \* "fetch", "sync", "llm", "done"
  req,         \* the request body
  text,        \* the acquired text
  pages,       \* the page count
  source,      \* the source mode: "none", "raw", "s3"
  waited,      \* _textract_async: seconds slept in the polling loop
  polls,       \* _textract_async: status polls made by the polling loop
  lastStatus,  \* _textract_async: the JobStatus of the last poll
  pending,     \* the blocks the OCR job has still to deliver
  blocks_all,  \* _textract_async: the blocks fetched so far
  calls,       \* the collaborator calls of this request
  reply,       \* the completion service's reply to this request
  llm,         \* what _llm_extract_fields gave for it
  resp,        \* the response
  table,       \* the schedule handler's table: pk -> item
  sreq,        \* the last schedule request
  sresp,       \* the schedule handler's last response
  replaced,    \* whether its put_item changed an item already stored
  arg,         \* the input of a normalizer or rule-based function
  out,         \* what the function gave for it
  cpc,         \* concurrent invocations: where each one stands
  creq,        \* the request of each
  clocal,      \* the local variables of each: its plan, item and response
  cresp        \* the response each has returned

evars == <<pc, req, text, pages, source, waited, polls, lastStatus, pending,
           blocks_all, calls, reply, llm, resp>>

svars == <<table, sreq, sresp, replaced>>

nvars == <<arg, out>>

cvars == <<cpc, creq, clocal, cresp>>

vars == <<evars, svars, nvars, cvars>>

NoRequest == Request(None, None, None)

EInit ==
  /\ pc = "idle"
  /\ req = NoRequest
  /\ text = <<>>
  /\ pages = 0
  /\ source = "none"
  /\ waited = 0
  /\ polls = 0
  /\ lastStatus = "none"
  /\ pending = <<>>
  /\ blocks_all = <<>>
  /\ calls = NoCalls
  /\ reply = NoReply
  /\ llm = NoLlm
  /\ resp = NoResp

\* the handler returns resp
Return(r) ==
  /\ pc' = "done"
  /\ resp' = r

\* except Exception (line 349): status 500 with the exception's text
Fail500(msg) == Return(Resp(500, ErrorBody(msg)))

\* lines 283-304, up to the first call of a collaborator
Receive ==
  /\ pc = "idle"
  /\ \E r \in Requests :
       LET raw == Strip(OrEmpty(r.raw_text))
       IN /\ req' = r
          /\ IF raw # <<>>
             THEN /\ text' = raw
                  /\ pages' = 1
                  /\ source' = "raw"
                  /\ pc' = "llm"
                  /\ UNCHANGED resp
             ELSE /\ UNCHANGED <<text, pages, source>>
                  /\ IF ~Truthy(r.bucket) \/ ~Truthy(r.key)
                     THEN Return(Resp(400, ErrorBody(MsgProvide)))
                     ELSE /\ pc' = IF _ext(r.key.s) \in AsyncExts THEN "start" ELSE "sync"
                          /\ UNCHANGED resp
  /\ UNCHANGED <<waited, polls, lastStatus, pending, blocks_all, calls, reply, llm>>
  /\ UNCHANGED <<svars, nvars, cvars>>

\* _textract_sync: one detect_document_text call
SyncOcr ==
  /\ pc = "sync"
  /\ calls' = [calls EXCEPT !.sync = @ + 1]
  /\ \/ \E d \in Docs :
          /\ text' = _collect_text_from_blocks(d).text
          /\ pages' = _collect_text_from_blocks(d).pages
          /\ source' = "s3"
          /\ pc' = "llm"
          /\ UNCHANGED resp
     \/ /\ Fail500(MsgTextract)
        /\ UNCHANGED <<text, pages, source>>
  /\ UNCHANGED <<req, waited, polls, lastStatus, pending, blocks_all, reply, llm>>
  /\ UNCHANGED <<svars, nvars, cvars>>

\* _textract_async, lines 81-85: start_document_text_detection
StartJob ==
  /\ pc = "start"
  /\ calls' = [calls EXCEPT !.start = @ + 1]
  /\ \/ /\ pc' = "poll"
        /\ waited' = 0
        /\ UNCHANGED resp
     \/ /\ Fail500(MsgTextract)
        /\ UNCHANGED waited
  /\ UNCHANGED <<req, text, pages, source, polls, lastStatus, pending, blocks_all,
                 reply, llm>>
  /\ UNCHANGED <<svars, nvars, cvars>>

max_wait_sec == 60

sleep == 2

\* the polling loop with the bound tested by > where the code has >=
PollStep_LateTimeout(status) ==
  /\ polls' = polls + 1
  /\ lastStatus' = status
  /\ IF status = "SUCCEEDED"
     THEN /\ pc' = "fetch"
          /\ \E d \in Docs : pending' = d
          /\ UNCHANGED <<waited, resp>>
     ELSE IF status \in {"FAILED", "PARTIAL_SUCCESS"}
     THEN /\ Fail500(MsgJobEnded(status))
          /\ UNCHANGED <<waited, pending>>
     ELSE /\ waited' = waited + sleep
          /\ IF waited + sleep > max_wait_sec
             THEN Return(Resp(504, ErrorBody(MsgNotFinished)))
             ELSE UNCHANGED <<pc, resp>>
          /\ UNCHANGED pending

\* what one turn of the polling loop does with the status it reads
PollStep(status) ==
  /\ polls' = polls + 1
  /\ lastStatus' = status
  /\ IF status = "SUCCEEDED"
     THEN /\ pc' = "fetch"
          /\ \E d \in Docs : pending' = d
          /\ UNCHANGED <<waited, resp>>
     ELSE IF status \in {"FAILED", "PARTIAL_SUCCESS"}
     THEN /\ Fail500(MsgJobEnded(status))
          /\ UNCHANGED <<waited, pending>>
     ELSE /\ waited' = waited + sleep
          /\ IF waited + sleep >= max_wait_sec
             THEN Return(Resp(504, ErrorBody(MsgNotFinished)))
             ELSE UNCHANGED <<pc, resp>>
          /\ UNCHANGED pending

\* _textract_async, lines 86-94: one turn of the polling loop
Poll ==
  /\ pc = "poll"
  /\ \/ \E status \in JobStatuses : PollStep(status)
     \/ /\ polls' = polls + 1
        /\ Fail500(MsgTextract)
        /\ UNCHANGED <<waited, lastStatus, pending>>
  /\ UNCHANGED <<req, text, pages, source, blocks_all, calls, reply, llm>>
  /\ UNCHANGED <<svars, nvars, cvars>>

\* _textract_async, lines 95-103: one page of results; the function returns
\* after the page that carries no NextToken
Fetch ==
  /\ pc = "fetch"
  /\ calls' = [calls EXCEPT !.fetch = @ + 1]
  /\ \/ \E n \in 0..Len(pending) :
          /\ n > 0 \/ pending = <<>>
          /\ LET got == blocks_all \o SubSeq(pending, 1, n)
                 nt == n < Len(pending)
             IN IF nt
                THEN /\ blocks_all' = got
                     /\ pending' = SubSeq(pending, n + 1, Len(pending))
                     /\ UNCHANGED <<pc, text, pages, source, waited, polls>>
                ELSE /\ text' = _collect_text_from_blocks(got).text
                     /\ pages' = _collect_text_from_blocks(got).pages
                     /\ source' = "s3"
                     /\ pc' = "llm"
                     /\ blocks_all' = <<>>
                     /\ pending' = <<>>
                     /\ waited' = 0
                     /\ polls' = 0
          /\ UNCHANGED resp
     \/ /\ Fail500(MsgTextract)
        /\ UNCHANGED <<text, pages, source, waited, polls, pending, blocks_all>>
  /\ UNCHANGED <<req, lastStatus, reply, llm>>
  /\ UNCHANGED <<svars, nvars, cvars>>

\* lines 308-344: the extractors, the normalization and the response
InvokeModel ==
  /\ pc = "llm"
  /\ \E rep \in Replies :
       \E c \in { ChooseFields(text, rep) } :
          /\ reply' = rep
          /\ llm' = c.llm
          /\ calls' = [calls EXCEPT !.invoke = @ + 1,
                                    !.rule = IF c.rule THEN calls.rule + 1 ELSE calls.rule]
          /\ Return(Resp(200, OkBody(Normalize(c.fields), pages, source, text)))
  /\ UNCHANGED <<req, text, pages, source, waited, polls, lastStatus, pending,
                 blocks_all>>
  /\ UNCHANGED <<svars, nvars, cvars>>

\* the next invocation of the handler starts from nothing
NextRequest ==
  /\ pc = "done"
  /\ pc' = "idle"
  /\ req' = NoRequest
  /\ text' = <<>>
  /\ pages' = 0
  /\ source' = "none"
  /\ waited' = 0
  /\ polls' = 0
  /\ lastStatus' = "none"
  /\ pending' = <<>>
  /\ blocks_all' = <<>>
  /\ calls' = NoCalls
  /\ reply' = NoReply
  /\ llm' = NoLlm
  /\ resp' = NoResp
  /\ UNCHANGED <<svars, nvars, cvars>>

\* ------------------------------------------------------------------------
\* Schedule handler (lambdas/ScheduleRemindersFn): dates and times
\* ------------------------------------------------------------------------

\* days before 1 January of year y, counted from 0001-01-01
DaysBeforeYear(y) ==
  LET p == y - 1 IN p * 365 + (p \div 4) - (p \div 100) + (p \div 400)

RECURSIVE DaysBeforeMonth(_, _)
DaysBeforeMonth(y, m) ==
  IF m = 1 THEN 0 ELSE DaysBeforeMonth(y, m - 1) + DaysInMonth(y, m - 1)

\* date(y, m, d).toordinal(): 0001-01-01 is day 1
ToOrdinal(y, m, d) == DaysBeforeYear(y) + DaysBeforeMonth(y, m) + d

\* the last day datetime can hold, 9999-12-31
MaxOrdinal == ToOrdinal(9999, 12, 31)

\* date.fromordinal(n) for n in 1..MaxOrdinal
FromOrdinal(n) ==
  LET y == CHOOSE yy \in ((n \div 366) + 1)..((n \div 365) + 1) :
              DaysBeforeYear(yy) < n /\ n <= DaysBeforeYear(yy + 1)
      r == n - DaysBeforeYear(y)
      m == CHOOSE mm \in 1..12 :
              DaysBeforeMonth(y, mm) < r /\ r <= DaysBeforeMonth(y, mm) + DaysInMonth(y, mm)
  IN [m |-> m, y |-> y, d |-> r - DaysBeforeMonth(y, m)]

\* an aware datetime in UTC at whole seconds: its day and second of the day
DateTime(ord, secs) == [ord |-> ord, secs |-> secs]

\* the outcome of a step that may raise: ok with a value, or the exception
Ok(v) == [v |-> v, ok |-> TRUE, exc |-> "none"]

Raised(exc) == [v |-> 0, ok |-> FALSE, exc |-> exc]

\* a datetime of day ord, OverflowError outside the years 1..9999
InRange(ord, secs) ==
  IF ord < 1 \/ ord > MaxOrdinal THEN Raised("OverflowError")
  ELSE Ok(DateTime(ord, secs))

\* datetime - timedelta(seconds = delta), for |delta| below two days
ShiftSeconds(dt, delta) ==
  LET secs == dt.secs - delta
  IN InRange(dt.ord + ((secs + 172800) \div 86400) - 2, (secs + 172800) % 86400)

\* dt + timedelta(days = off): the offset applied with the wrong sign
MinusDays_Plus(dt, off) == InRange(dt.ord + off, dt.secs)

\* dt - timedelta(days = off)
MinusDays(dt, off) == InRange(dt.ord - off, dt.secs)

\* when.strftime(ISO) with ISO = "%Y-%m-%dT%H:%M:%SZ"
ISO(dt) ==
  LET c == FromOrdinal(dt.ord)
      Two(n) == ZeroPad(NatStr(n), 2)
  IN FormatDate(c.y, c.m, c.d) \o <<"T">> \o Two(dt.secs \div 3600) \o <<":">>
       \o Two((dt.secs \div 60) % 60) \o <<":">> \o Two(dt.secs % 60) \o <<"Z">>

\* dt.date().isoformat(): the year is always four digits
DateIso(dt) ==
  LET c == FromOrdinal(dt.ord)
  IN ZeroPad(NatStr(c.y), 4) \o <<"-">> \o ZeroPad(NatStr(c.m), 2)
       \o <<"-">> \o ZeroPad(NatStr(c.d), 2)

\* int(s) of Python on a string: surrounding whitespace, a sign, digits
PyIntStr(s0) ==
  LET s == Strip(s0)
      signed == Len(s) > 0 /\ s[1] \in {"+", "-"}
      body == IF signed THEN Tail(s) ELSE s
  IN IF Len(body) > 0 /\ \A i \in 1..Len(body) : IsDigit(body[i])
     THEN Ok(IF signed /\ s[1] = "-" THEN -DigitsVal(body) ELSE DigitsVal(body))
     ELSE Raised("ValueError")

\* int(v) of Python on a JSON value
PyInt(v) ==
  CASE v.t = "int" -> Ok(v.m)
    [] v.t = "bool" -> Ok(v.m)
    [] v.t = "float" -> Ok(IF v.m < 0 THEN -((-v.m) \div Pow10(v.e)) ELSE v.m \div Pow10(v.e))
    [] v.t = "str" -> PyIntStr(v.s)
    [] OTHER -> Raised("TypeError")

\* s.split(c) for a one-character separator c
Split(s, c) ==
  LET seps == { i \in 1..Len(s) : s[i] = c }
      Sep(k) == IF k = 0 THEN 0
                ELSE IF k > Cardinality(seps) THEN Len(s) + 1
                ELSE CHOOSE p \in seps : Cardinality({ q \in seps : q <= p }) = k
  IN [k \in 1..(Cardinality(seps) + 1) |-> Slice(s, Sep(k - 1) + 1, Sep(k) - 1)]

\* the number written by the two digits at s[i] and s[i + 1], else -1
TwoDigitsAt(s, i) ==
  IF i >= 1 /\ i + 1 <= Len(s) /\ IsDigit(s[i]) /\ IsDigit(s[i + 1])
  THEN DigitVal(s[i]) * 10 + DigitVal(s[i + 1]) ELSE -1

\* the fields of "HH", "HH:MM" or "HH:MM:SS" as read by fromisoformat
\* (fractions of a second are outside the inputs of the model)
ParseHMS(t) ==
  LET h == TwoDigitsAt(t, 1)
      m == TwoDigitsAt(t, 4)
      sec == TwoDigitsAt(t, 7)
  IN CASE Len(t) = 2 /\ h >= 0 -> Ok(<<h, 0, 0>>)
       [] Len(t) = 5 /\ h >= 0 /\ t[3] = ":" /\ m >= 0 -> Ok(<<h, m, 0>>)
       [] Len(t) = 8 /\ h >= 0 /\ t[3] = ":" /\ m >= 0 /\ t[6] = ":" /\ sec >= 0
            -> Ok(<<h, m, sec>>)
       [] OTHER -> Raised("ValueError")

\* datetime.fromisoformat(s).astimezone(timezone.utc): "YYYY-MM-DD", one
\* separator character, a time and an optional "+HH:MM" or "-HH:MM" offset.
\* A time without an offset is read in the local zone of the process, which
\* is UTC in the Lambda runtime.
FromIsoFormatUtc(s) ==
  LET y == IF Len(s) >= 4 /\ \A i \in 1..4 : IsDigit(s[i])
           THEN DigitsVal(SubSeq(s, 1, 4)) ELSE -1
      m == TwoDigitsAt(s, 6)
      d == TwoDigitsAt(s, 9)
      dateOk == /\ Len(s) >= 10 /\ s[5] = "-" /\ s[8] = "-"
                /\ y >= 0 /\ m >= 0 /\ d >= 0
      tstr == Slice(s, 12, Len(s))
      signs == { i \in 1..Len(tstr) : tstr[i] \in {"+", "-"} }
      minus == { i \in signs : tstr[i] = "-" }
      \* tstr.find('-') + 1 or tstr.find('+') + 1
      tz_pos == IF minus # {} THEN MinOf(minus)
                ELSE IF signs # {} THEN MinOf(signs) ELSE 0
      timestr == IF tz_pos > 0 THEN Slice(tstr, 1, tz_pos - 1) ELSE tstr
      tzstr == IF tz_pos > 0 THEN Slice(tstr, tz_pos + 1, Len(tstr)) ELSE <<>>
      t == IF Len(s) = 10 THEN Ok(<<0, 0, 0>>) ELSE ParseHMS(timestr)
      z == IF tz_pos = 0 THEN Ok(<<0, 0, 0>>)
           ELSE IF Len(tzstr) \in {5, 8} THEN ParseHMS(tzstr)
           ELSE Raised("ValueError")
      zsecs == z.v[1] * 3600 + z.v[2] * 60 + z.v[3]
      offset == IF tz_pos > 0 /\ tstr[tz_pos] = "-" THEN -zsecs ELSE zsecs
  IN IF ~dateOk \/ ~t.ok \/ ~z.ok THEN Raised("ValueError")
     ELSE IF ~ValidDate(y, m, d) \/ t.v[1] > 23 \/ t.v[2] > 59 \/ t.v[3] > 59
             \/ zsecs >= 86400
     THEN Raised("ValueError")
     ELSE ShiftSeconds(DateTime(ToOrdinal(y, m, d), t.v[1] * 3600 + t.v[2] * 60 + t.v[3]),
                       offset)

\* y, m, d = [int(x) for x in due_date.split('-')] and
\* datetime(y, m, d, hour, 0, 0, tzinfo=timezone.utc)
\* a date-only due date read at midnight, whatever the hour
FromDateParts_Midnight(due_date, hour) ==
  LET parts == Split(due_date, "-")
      ints == [k \in 1..Len(parts) |-> PyIntStr(parts[k])]
  IN IF \E k \in 1..Len(parts) : ~ints[k].ok THEN Raised("ValueError")
     ELSE IF Len(parts) # 3 THEN Raised("ValueError")
     ELSE IF ~ValidDate(ints[1].v, ints[2].v, ints[3].v) \/ hour < 0 \/ hour > 23
     THEN Raised("ValueError")
     ELSE Ok(DateTime(ToOrdinal(ints[1].v, ints[2].v, ints[3].v), 0))

FromDateParts(due_date, hour) ==
  LET parts == Split(due_date, "-")
      ints == [k \in 1..Len(parts) |-> PyIntStr(parts[k])]
  IN IF \E k \in 1..Len(parts) : ~ints[k].ok THEN Raised("ValueError")
     ELSE IF Len(parts) # 3 THEN Raised("ValueError")
     ELSE IF ~ValidDate(ints[1].v, ints[2].v, ints[3].v) \/ hour < 0 \/ hour > 23
     THEN Raised("ValueError")
     ELSE Ok(DateTime(ToOrdinal(ints[1].v, ints[2].v, ints[3].v), hour * 3600))

\* lines 24-28: the due instant of the request, in UTC
DueInstant(due_date, hour) ==
  IF \E i \in 1..Len(due_date) : due_date[i] = "T"
  THEN FromIsoFormatUtc(ReplaceAll(due_date, <<"Z">>, <<"+","0","0",":","0","0">>))
  ELSE FromDateParts(due_date, hour)

\* ------------------------------------------------------------------------
\* Schedule handler: the request, the plan and the response
\* ------------------------------------------------------------------------

\* the offsets_days member of the body: absent, null, or a list of values
NoOffsets == [kind |-> "absent", items |-> <<>>]

NullOffsets == [kind |-> "null", items |-> <<>>]

ListOffsets(items) == [kind |-> "list", items |-> items]

\* the hour member of the body: absent, or a value
NoHour == [v |-> JNull, present |-> FALSE]

Hour(v) == [v |-> v, present |-> TRUE]

\* the event of the schedule handler.  kind says what event['body'] holds:
\* "absent" (no body, or an empty one), "invalid" (not JSON), "nonobject"
\* (JSON, not an object) or "object", with the members the handler reads
ScheduleEvent(kind, due_date, userId, billId, offsets_days, hour) ==
  [kind |-> kind, due_date |-> due_date, hour |-> hour, userId |-> userId,
   billId |-> billId, offsets_days |-> offsets_days]

DefaultOffsets == <<JInt(7), JInt(3), JInt(0)>>

DefaultHour == 9

Demo == <<"d","e","m","o">>

Bill001 == <<"b","i","l","l","-","0","0","1">>

DueDay == <<"d","u","e","-","d","a","y">>

Reminder == <<"r","e","m","i","n","d","e","r">>

\* lines 30-38 with the due-day test written off <= 0
Plan_DueDayNotPositive(dt, offsets) ==
  LET n == Len(offsets)
      off == [i \in 1..n |-> PyInt(offsets[i])]
      when == [i \in 1..n |-> IF off[i].ok THEN MinusDays(dt, off[i].v) ELSE off[i]]
      bad == { i \in 1..n : ~when[i].ok }
  IN IF bad # {} THEN Raised(when[MinOf(bad)].exc)
     ELSE Ok([i \in 1..n |->
                [type |-> IF off[i].v <= 0 THEN DueDay ELSE Reminder,
                 when |-> ISO(when[i].v),
                 offset_days |-> off[i].v]])

\* lines 30-38: the plan for the offsets, or the first exception of the loop
Plan(dt, offsets) ==
  LET n == Len(offsets)
      off == [i \in 1..n |-> PyInt(offsets[i])]
      when == [i \in 1..n |-> IF off[i].ok THEN MinusDays(dt, off[i].v) ELSE off[i]]
      bad == { i \in 1..n : ~when[i].ok }
  IN IF bad # {} THEN Raised(when[MinOf(bad)].exc)
     ELSE Ok([i \in 1..n |->
                [type |-> IF off[i].v = 0 THEN DueDay ELSE Reminder,
                 when |-> ISO(when[i].v),
                 offset_days |-> off[i].v]])

\* the item put_item writes
Item(pk, dt, plan) ==
  [pk |-> pk, plan |-> plan, sk |-> <<"v","1">>, dueDate |-> DateIso(dt)]

MsgDueRequired == <<"due_date required">>

\* a response of the schedule handler; only the 200 response has headers
ScheduleResp(code, headers, obj) ==
  [body |-> obj, statusCode |-> code, headers |-> headers]

NoHeaders == <<>>

\* the 200 response of the schedule handler
PlanResp(plan) ==
  ScheduleResp(200, <<"content-type", "application/json">>, [plan |-> plan])

\* the 500 response: the body reports the exception (by its class here)
ErrorResp(exc) == ScheduleResp(500, NoHeaders, ErrorBody(<<exc>>))

NoScheduleResp == ScheduleResp(0, NoHeaders, EmptyObj)

NoItem == [pk |-> <<>>, plan |-> <<>>, sk |-> <<>>, dueDate |-> <<>>]

Outcome(r, put, item) == [resp |-> r, put |-> put, item |-> item]

\* lambda_handler of ScheduleRemindersFn: the response to the event and the
\* item it writes.  putOk says whether table.put_item returns or raises.
schedule_handler(event, putOk) ==
  LET hour == IF event.kind = "object" /\ event.hour.present
              THEN PyInt(event.hour.v) ELSE Ok(DefaultHour)
      due_date == IF event.kind = "object" THEN event.due_date ELSE None
      user_id == IF event.kind = "object" /\ Truthy(event.userId)
                 THEN event.userId.s ELSE Demo
      bill_id == IF event.kind = "object" /\ Truthy(event.billId)
                 THEN event.billId.s ELSE Bill001
      dt == DueInstant(due_date.s, hour.v)
      offsets == IF event.offsets_days.kind = "absent"
                 THEN DefaultOffsets ELSE event.offsets_days.items
      plan == Plan(dt.v, offsets)
      pk == user_id \o <<"#">> \o bill_id
  IN IF event.kind = "invalid" THEN Outcome(ErrorResp("JSONDecodeError"), FALSE, NoItem)
     ELSE IF event.kind = "nonobject" THEN Outcome(ErrorResp("AttributeError"), FALSE, NoItem)
     ELSE IF ~hour.ok THEN Outcome(ErrorResp(hour.exc), FALSE, NoItem)
     ELSE IF ~Truthy(due_date)
     THEN Outcome(ScheduleResp(400, NoHeaders, ErrorBody(MsgDueRequired)), FALSE, NoItem)
     ELSE IF ~dt.ok THEN Outcome(ErrorResp(dt.exc), FALSE, NoItem)
     ELSE IF event.offsets_days.kind = "null"
     THEN Outcome(ErrorResp("TypeError"), FALSE, NoItem)
     ELSE IF ~plan.ok THEN Outcome(ErrorResp(plan.exc), FALSE, NoItem)
     ELSE IF ~putOk THEN Outcome(ErrorResp("ClientError"), FALSE, NoItem)
     ELSE Outcome(PlanResp(plan.v), TRUE, Item(pk, dt.v, plan.v))

\* ------------------------------------------------------------------------
\* Schedule handler: the requests of the model and the state machine
\* ------------------------------------------------------------------------
DueDates ==
  { Some(<<"2","0","2","4","-","0","3","-","1","0">>), Some(<<"2","0","2","4","-","0","3","-","0","1">>), Some(<<"2","0","2","4","-","0","3","-","1","0","T","0","9",":","0","0",":","0","0","Z">>),
    Some(<<"2","0","2","4","-","0","1","-","0","1","T","0","1",":","3","0",":","0","0","+","0","2",":","0","0">>), Some(<<"0","0","0","1","-","0","1","-","0","3">>), Some(<<"2","0","2","4","-","0","2","-","3","0">>),
    Some(<<"1","0","/","0","3","/","2","0","2","4">>), Some(<<"T","o","m","o","r","r","o","w">>), Some(<<>>), None }

IntLists ==
  { <<>>, <<0>>, <<0, 0>>, <<7, 3, 0>>, <<3, 7>>, <<-1, 0>>, <<7, 7>>,
    <<0, 3, 0>>, <<-2>>, <<30, 1>> }

OffsetLists ==
  { ListOffsets([i \in 1..Len(l) |-> JInt(l[i])]) : l \in IntLists } \cup
  { NoOffsets, NullOffsets, ListOffsets(<<JStr(<<"3">>), JInt(0)>>),
    ListOffsets(<<JInt(7), JStr(<<"x">>)>>), ListOffsets(<<Canon(25, 1)>>) }

Hours == { NoHour, Hour(JInt(9)), Hour(JInt(18)), Hour(JInt(25)), Hour(JStr(<<"x">>)) }

ScheduleEvents ==
  { ScheduleEvent("object", d, None, None, NoOffsets, NoHour) : d \in DueDates } \cup
  { ScheduleEvent("object", d, None, None, o, NoHour) :
      d \in { Some(<<"2","0","2","4","-","0","3","-","1","0">>), Some(<<"2","0","2","4","-","0","3","-","0","1">>), Some(<<"0","0","0","1","-","0","1","-","0","3">>) },
      o \in OffsetLists } \cup
  { ScheduleEvent("object", d, None, None, ListOffsets(<<JInt(7), JInt(3), JInt(0)>>), h) :
      d \in { Some(<<"2","0","2","4","-","0","3","-","1","0">>), Some(<<"2","0","2","4","-","0","3","-","1","0","T","0","9",":","0","0",":","0","0","Z">>), None }, h \in Hours } \cup
  { ScheduleEvent("object", Some(<<"2","0","2","4","-","0","3","-","1","0">>), Some(<<>>), Some(<<"b","2">>), ListOffsets(<<JInt(0)>>), NoHour),
    ScheduleEvent("object", Some(<<"2","0","2","4","-","0","3","-","1","0">>), Some(<<"a","#","b">>), Some(<<"c">>), ListOffsets(<<JInt(0)>>), NoHour),
    ScheduleEvent("object", Some(<<"2","0","2","4","-","0","3","-","0","1">>), Some(<<"a">>), Some(<<"b","#","c">>), ListOffsets(<<JInt(0)>>), NoHour) } \cup
  { ScheduleEvent(k, None, None, None, NoOffsets, NoHour) :
      k \in { "absent", "invalid", "nonobject" } }

NoEvent == ScheduleEvent("none", None, None, None, NoOffsets, NoHour)

\* the request being served: the event, and whether put_item will succeed
ScheduleRequest(event, putOk) == [event |-> event, putOk |-> putOk]

\* table.put_item(Item=item): the item replaces the one stored under its key
\* put_item that keeps the item already stored under the key
PutItem_KeepsFirst(t, item) ==
  [k \in DOMAIN t \cup {item.pk} |-> IF k \in DOMAIN t THEN t[k] ELSE item]

\* put_item that appends the new plan to the stored one
PutItem_Appends(t, item) ==
  [k \in DOMAIN t \cup {item.pk} |->
     IF k = item.pk
     THEN IF k \in DOMAIN t
          THEN [item EXCEPT !.plan = t[k].plan \o item.plan]
          ELSE item
     ELSE t[k]]

PutItem(t, item) ==
  [k \in DOMAIN t \cup {item.pk} |-> IF k = item.pk THEN item ELSE t[k]]

SInit ==
  /\ table = EmptyObj
  /\ sreq = ScheduleRequest(NoEvent, TRUE)
  /\ sresp = NoScheduleResp
  /\ replaced = FALSE

\* one invocation of the schedule handler
Schedule ==
  \E event \in ScheduleEvents : \E putOk \in BOOLEAN :
    \E o \in { schedule_handler(event, putOk) } :
      /\ sreq' = ScheduleRequest(event, putOk)
      /\ sresp' = o.resp
      /\ table' = IF o.put THEN PutItem(table, o.item) ELSE table
      /\ replaced' = (/\ o.put
                      /\ o.item.pk \in DOMAIN table
                      /\ table[o.item.pk] # o.item)
      /\ UNCHANGED <<evars, nvars, cvars>>

\* ------------------------------------------------------------------------
\* The normalizer and the rule-based extractor applied to single inputs
\* ------------------------------------------------------------------------

\* an input: the function it is for, its argument as a JSON value, and, for
\* a text built around a numeric token, that token
Arg(fn, v, token) == [v |-> v, fn |-> fn, token |-> token]

NoArg == Arg("none", JNull, <<>>)

\* the result: a JSON value (_to_float, _iso_date) or the fields of
\* _rule_fallback
Out(applied, value, fields) ==
  [fields |-> fields, applied |-> applied, value |-> value]

NoOut == Out(FALSE, JNull, EmptyObj)

\* amount strings: a number as bills write it, with or without a currency
\* mark in front and a blank behind
AmountStrings ==
  { mark \o num \o pad :
      mark \in { <<>>, <<"G","H","S"," ">>, <<"G","H","U20B5">> },
      num \in { <<"1",",","2","3","4",".","5","6">>, <<"1",".","2","3","4",",","5","6">>, <<"1","2","3","4",".","5","6">>, <<"4","5","2",".","1","0">>, <<"4","5","2",",","1","0">>, <<"1"," ","2","3","4",",","5","6">>,
                <<"1",",","2","3","4">>, <<"1",",","2","3","4",",","5","6","7",".","8","9">>, <<"1","2">>, <<"0",".","5">>, <<"a","b","c">>, <<>> },
      pad \in { <<>>, <<" ">> } }

\* the fifth of March 2024 as the parsers accept it: ISO; day first, the day
\* with or without a leading zero and an ordinal suffix, the month name full
\* or short in any case; month first
SupportedDateTexts ==
  { day \o suffix \o <<" ">> \o month \o <<" ","2","0","2","4">> :
      day \in { <<"5">>, <<"0","5">> }, suffix \in { <<>>, <<"t","h">> },
      month \in { <<"M","a","r","c","h">>, <<"M","a","r">>, <<"M","A","R","C","H">>, <<"M","A","R">>, <<"m","a","r","c","h">>, <<"m","a","r">>, <<"m","A","r","C","h">> } }
    \cup { <<"2","0","2","4","-","0","3","-","0","5">>, <<"M","a","r","c","h"," ","5",","," ","2","0","2","4">> }

\* the values of a date field: the supported texts and other values
DateValues ==
  { JStr(t) : t \in SupportedDateTexts }
    \cup
  { JStr(<<"M","a","r"," ","5","t","h"," ","2","0","2","4">>), JStr(<<"2","0","2","4","/","0","3","/","0","5">>), JStr(<<"2","0","2","4",".","3",".","5">>), JStr(<<"0","5","/","0","3","/","2","0","2","4">>),
    JStr(<<"d","u","e"," ","2","0","2","4","-","0","3","-","0","5"," ","l","a","t","e","s","t">>), JStr(<<"5","T","H"," ","M","a","r","c","h"," ","2","0","2","4">>), JStr(<<"5"," ","M","a","r","z","o"," ","2","0","2","4">>),
    JStr(<<"S","e","p","t"," ","5",","," ","2","0","2","4">>), JStr(<<"2","0","2","4","-","0","2","-","2","9">>), JStr(<<"2","0","2","3","-","0","2","-","2","9">>),
    JStr(<<"2","0","2","4","-","0","2","-","3","1">>), JStr(<<"3","1"," ","F","e","b"," ","2","0","2","4">>), JStr(<<"F","e","b"," ","3","1",","," ","2","0","2","4">>),
    JStr(<<"3","1","s","t"," ","F","e","b","r","u","a","r","y"," ","2","0","2","4">>), JStr(<<"2","0","2","4","-","1","3","-","0","1">>), JStr(<<"2","0","2","4","-","0","0","-","1","0">>),
    JStr(<<"0","9","9","9","-","0","1","-","0","1">>), JStr(<<"0","0","0","0","-","0","1","-","0","1">>), JStr(<<"1"," ","J","a","n"," ","0","9","9","9">>), JStr(<<>>),
    JNull, JInt(20240305), JInt(0), JBool(TRUE), JOther(<<"[","1",","," ","2","]">>),
    JOther(<<"{","'","d","'",":"," ","'","2","0","2","4","-","0","3","-","0","5","'","}">>) }

LabelTexts == { <<"T","o","t","a","l"," ","D","u","e">>, <<"a","m","o","u","n","t"," ","p","a","y","a","b","l","e">>, <<"G","R","A","N","D"," ","T","O","T","A","L">>, <<"B","a","l","a","n","c","e"," "," ","d","u","e">> }

NumericTokens == { <<"4","5","2",".","1","0">>, <<"4","5","2",",","1","0">>, <<"1",",","2","3","4",".","5","6">>, <<"1"," ","2","3","4",",","5","6">>, <<"1","2">>, <<"1",",","2","3","4">>, <<"1",".","2","3","4",",","5","6">> }

\* the filler of the long gap: the token then starts 150 characters after
\* the label
FillerLen == 140

\* texts for the rule-based extractor: a heading or none, an amount label,
\* a gap holding a GHS mark, a numeric token, and a tail or none
RuleTexts ==
  { Arg("_rule_fallback", JStr(head \o label \o gap \o token \o tail), token) :
      head \in { <<>>, <<"A","c","m","e"," ","W","a","t","e","r","\n","I","n","v","o","i","c","e"," ","7","7"," ","o","f"," ","2","0","2","4","\n">> },
      label \in LabelTexts,
      gap \in { <<":"," ","G","H","S"," ">>, <<" ","G","H","U20B5"," ">>, <<":"," ","G","H","C"," ">> \o [i \in 1..FillerLen |-> "."] \o <<" ">> },
      token \in NumericTokens,
      tail \in { <<>>, <<"\n","p","a","y"," ","b","y"," ","M","a","r","c","h"," ","5",","," ","2","0","2","4">> } }

Args ==
  { Arg("_to_float", JStr(a), <<>>) : a \in AmountStrings }
    \cup { Arg("_iso_date", d, <<>>) : d \in DateValues }
    \cup RuleTexts

NInit == arg = NoArg /\ out = NoOut

\* _to_float applied to the input
ToFloat ==
  /\ arg.fn = "_to_float"
  /\ ~out.applied
  /\ \E r \in { _to_float(arg.v.s) } : out' = Out(TRUE, r, EmptyObj)
  /\ UNCHANGED <<arg, evars, svars, cvars>>

\* _iso_date applied to the input
IsoDate ==
  /\ arg.fn = "_iso_date"
  /\ ~out.applied
  /\ \E r \in { _iso_date(arg.v) } : out' = Out(TRUE, OptJson(r), EmptyObj)
  /\ UNCHANGED <<arg, evars, svars, cvars>>

\* _rule_fallback applied to the input
RuleFallback ==
  /\ arg.fn = "_rule_fallback"
  /\ ~out.applied
  /\ \E r \in { _rule_fallback(arg.v.s) } : out' = Out(TRUE, JNull, r)
  /\ UNCHANGED <<arg, evars, svars, cvars>>


\* ------------------------------------------------------------------------
\* Schedule handler: several invocations running at the same time
\* ------------------------------------------------------------------------

\* the number of invocations in flight
NumProcs == 2

Procs == 1..NumProcs

\* requests of the invocations: three for the default key, two with different
\* plans and one that fails before the write, and one for another key
ConcurrentEvents ==
  { ScheduleEvent("object", Some(<<"2","0","2","4","-","0","3","-","1","0">>), None, None, NoOffsets, NoHour),
    ScheduleEvent("object", Some(<<"2","0","2","4","-","0","3","-","0","1">>), None, None, ListOffsets(<<JInt(3), JInt(7)>>), NoHour),
    ScheduleEvent("object", Some(<<"T","o","m","o","r","r","o","w">>), None, None, NoOffsets, NoHour),
    ScheduleEvent("object", Some(<<"2","0","2","4","-","0","3","-","1","0">>), Some(<<>>), Some(<<"b","2">>), ListOffsets(<<JInt(0)>>), NoHour) }

CInit ==
  /\ cpc = [p \in Procs |-> "idle"]
  /\ creq = [p \in Procs |-> ScheduleRequest(NoEvent, TRUE)]
  /\ clocal = [p \in Procs |-> Outcome(NoScheduleResp, FALSE, NoItem)]
  /\ cresp = [p \in Procs |-> NoScheduleResp]

\* lines 14-38: the invocation reads its event and computes its plan in
\* local variables; a failure here goes straight to the response
CStart(p) ==
  /\ cpc[p] = "idle"
  /\ \E event \in ConcurrentEvents : \E putOk \in BOOLEAN :
       \E o \in { schedule_handler(event, TRUE) } :
         /\ creq' = [creq EXCEPT ![p] = ScheduleRequest(event, putOk)]
         /\ clocal' = [clocal EXCEPT ![p] = o]
         /\ cpc' = [cpc EXCEPT ![p] = IF o.put THEN "put" ELSE "return"]
  /\ UNCHANGED <<table, cresp>>
  /\ UNCHANGED <<evars, sreq, sresp, replaced, nvars>>

\* lines 40-45: the one put_item call, which the table serves atomically;
\* when it raises, the handler turns to the 500 response
CPut(p) ==
  /\ cpc[p] = "put"
  /\ IF creq[p].putOk
     THEN /\ table' = PutItem(table, clocal[p].item)
          /\ UNCHANGED clocal
     ELSE /\ clocal' = [clocal EXCEPT ![p] = schedule_handler(creq[p].event, FALSE)]
          /\ UNCHANGED table
  /\ cpc' = [cpc EXCEPT ![p] = "return"]
  /\ UNCHANGED <<creq, cresp>>
  /\ UNCHANGED <<evars, sreq, sresp, replaced, nvars>>

\* lines 47-49: the response, built from the local variables
CReturn(p) ==
  /\ cpc[p] = "return"
  /\ cresp' = [cresp EXCEPT ![p] = clocal[p].resp]
  /\ cpc' = [cpc EXCEPT ![p] = "done"]
  /\ UNCHANGED <<table, creq, clocal>>
  /\ UNCHANGED <<evars, sreq, sresp, replaced, nvars>>

\* the next invocation served in the place of a finished one
CAgain(p) ==
  /\ cpc[p] = "done"
  /\ cpc' = [cpc EXCEPT ![p] = "idle"]
  /\ creq' = [creq EXCEPT ![p] = ScheduleRequest(NoEvent, TRUE)]
  /\ clocal' = [clocal EXCEPT ![p] = Outcome(NoScheduleResp, FALSE, NoItem)]
  /\ cresp' = [cresp EXCEPT ![p] = NoScheduleResp]
  /\ UNCHANGED table
  /\ UNCHANGED <<evars, sreq, sresp, replaced, nvars>>

ConcurrentNext ==
  \/ \E p \in Procs : CStart(p)
  \/ \E p \in Procs : CPut(p)
  \/ \E p \in Procs : CReturn(p)
  \/ \E p \in Procs : CAgain(p)


Init == EInit /\ SInit /\ NInit /\ CInit

Next ==
  \/ Receive
  \/ SyncOcr
  \/ StartJob
  \/ Poll
  \/ Fetch
  \/ InvokeModel
  \/ NextRequest

Spec == Init /\ [][Next]_vars

\* the schedule handler, invoked again and again on the same table
ScheduleNext == Schedule

ScheduleSpec == Init /\ [][ScheduleNext]_vars

ConcurrentSpec == Init /\ [][ConcurrentNext]_vars

NormalizerInit == EInit /\ SInit /\ CInit /\ arg \in Args /\ out = NoOut

NormalizerNext == ToFloat \/ IsoDate \/ RuleFallback

NormalizerSpec == NormalizerInit /\ [][NormalizerNext]_vars

\* ------------------------------------------------------------------------
\* Properties of the extract handler
\* ------------------------------------------------------------------------

\* the extract handler has answered with status 200
Done200 == pc = "done" /\ resp.statusCode = 200

\* the keys the normalization passes through unchanged
PlainKeys == {"provider", "account_number", "invoice_number"}

\* the text of a reply in which a field object is looked for: the text
\* segments of a structured reply joined, else the raw body
ReplyText(r) ==
  IF r.kind = "structured"
  THEN Join([i \in 1..Len(SelectSeq(r.content, LAMBDA c : c.type = "text")) |->
               SelectSeq(r.content, LAMBDA c : c.type = "text")[i].toks],
            <<Tok("nl")>>)
  ELSE IF r.kind = "dict" THEN <<ObjTok(r.obj)>>
  ELSE r.toks

\* no JSON object is written anywhere in the text
NoObjectIn(toks) == \A i \in DOMAIN toks : toks[i].k # "obj"

\* the response carries the rule-based extractor's fields for the text
RuleFieldsReturned ==
  /\ calls.rule = 1
  /\ Range(SCHEMA_KEYS) \subseteq DOMAIN resp.body
  /\ \A k \in PlainKeys : resp.body[k] = _rule_fallback(text)[k]
  /\ resp.body["amount"] = NormAmount(_rule_fallback(text)["amount"])

\* C1: every status-200 response of the extract handler has each of the
\* eight schema keys, and a key the model's object omitted is null
C1_SchemaKeysAlwaysPresent ==
  Done200 =>
    /\ Range(SCHEMA_KEYS) \subseteq DOMAIN resp.body
    /\ \A k \in Range(SCHEMA_KEYS) :
         (calls.rule = 0 /\ k \notin DOMAIN llm.parsed) => resp.body[k] = JNull

\* C1 witness: a 200 response built from a model object that omits keys
C1_Witness ==
  /\ Done200
  /\ calls.rule = 0
  /\ llm.parsed = ObjPartial
  /\ resp.body["currency"] = JNull

\* C2 as claimed: a reply whose text holds no JSON object makes the
\* model-assisted extractor return the empty object, and the response then
\* carries the rule-based extractor's fields
C2_UnparseableReplyFallsBack ==
  (/\ Done200
   /\ reply.kind \in {"text", "structured"}
   /\ \A i \in DOMAIN reply.content : reply.content[i].text # "nonstr"
   /\ NoObjectIn(ReplyText(reply)))
  => (llm.parsed = EmptyObj /\ RuleFieldsReturned)

\* C3 as claimed: once the text is acquired, a failure inside the
\* model-assisted extractor (the call raising, the body unreadable, nothing
\* parseable in the reply) still ends in a 200 response with the rule-based
\* extractor's fields
C3_ExtractorFailureDegrades ==
  (/\ pc = "done"
   /\ calls.invoke = 1
   /\ \/ reply.kind \in {"invoke_raises", "read_raises"}
      \/ reply.kind \in {"text", "structured"} /\ NoObjectIn(ReplyText(reply)))
  => (resp.statusCode = 200 /\ RuleFieldsReturned)

\* C4: the rule-based extractor runs exactly when the model-assisted result
\* is empty, and a response built from a model object takes nothing from
\* the rule-based extractor: omitted keys are null, the others the model's
C4_ExactlyOneStrategy ==
  (pc = "done" /\ calls.invoke = 1) =>
    /\ calls.rule <= 1
    /\ calls.rule = 1 <=> (llm.raised \/ llm.parsed = EmptyObj)
    /\ calls.rule = 1 => RuleFieldsReturned
    /\ calls.rule = 0 =>
         \A k \in Range(SCHEMA_KEYS) :
           /\ k \notin DOMAIN llm.parsed => resp.body[k] = JNull
           /\ (k \in PlainKeys /\ k \in DOMAIN llm.parsed) => resp.body[k] = llm.parsed[k]

\* C4 witness: the model's object omits the currency, the text names one
\* (the rule-based extractor finds GHS in it), and the response has null
C4_Witness ==
  /\ Done200
  /\ calls.rule = 0
  /\ llm.parsed = ObjPartial
  /\ _rule_fallback(text)["currency"] # JNull
  /\ resp.body["currency"] = JNull

\* the request names inline text
SuppliesText == Strip(OrEmpty(req.raw_text)) # <<>>

\* the request names a document: a bucket and a key
SuppliesDocument == Truthy(req.bucket) /\ Truthy(req.key)

\* C5 as claimed: a request with neither source, and a request with both,
\* each end with status 400 and no record
C5_ExactlyOneSourceRequired ==
  (pc = "done" /\ (SuppliesText <=> SuppliesDocument))
  => (resp.statusCode = 400 /\ calls.invoke = 0 /\ calls.rule = 0)

\* the most status polls the polling loop can make
MaxPolls == max_wait_sec \div sleep

\* C6: the polling loop makes at most max_wait_sec / sleep = 30 status
\* polls, one every 2 seconds of waiting, and when the wait reaches the
\* bound without SUCCEEDED the request ends with status 504
C6_PollingIsBounded ==
  /\ polls <= MaxPolls
  /\ waited <= max_wait_sec
  /\ pc = "poll" => (waited = polls * sleep /\ waited < max_wait_sec)
  /\ (pc = "done" /\ waited >= max_wait_sec) =>
       (resp.statusCode = 504 /\ polls = MaxPolls /\ calls.fetch = 0 /\ calls.invoke = 0)

\* C6 witness: thirty polls that read IN_PROGRESS, then the 504 response
C6_Witness ==
  /\ pc = "done"
  /\ polls = 30
  /\ waited = 60
  /\ lastStatus = "IN_PROGRESS"
  /\ resp.statusCode = 504

\* the status of the response to an unexpected exception (line 352)
GenericFailureStatus == 500

\* C7 as claimed: when the OCR job reports failure the response carries a
\* failure kind of its own, not the Timeout one nor the one of any other
\* failure, nothing is fetched and no extractor runs
C7_JobFailureIsSourceFailed ==
  (pc = "done" /\ lastStatus \in {"FAILED", "PARTIAL_SUCCESS"})
  => /\ resp.statusCode \notin {200, 400, 504, GenericFailureStatus}
     /\ calls.fetch = 0 /\ calls.invoke = 0 /\ calls.rule = 0

\* the name ends, whatever its case, in .pdf, .tif or .tiff
IsMultiPageName(name) ==
  \E e \in { <<".","p","d","f">>, <<".","t","i","f">>, <<".","t","i","f","f">> } :
     EndsWith(Lower(name), e)

\* the asynchronous mode is in use, or was used, for the request
UsesAsync == pc \in {"start", "poll", "fetch"} \/ calls.start > 0

\* the synchronous call is about to be made, or was made, for the request
UsesSync == pc = "sync" \/ calls.sync > 0

\* C8: a document request uses the asynchronous mode exactly when its name
\* ends, case-insensitively, in .pdf, .tif or .tiff; any other name uses
\* the synchronous call and starts no job
C8_AsyncIffMultiPageExtension ==
  /\ UsesAsync => (SuppliesDocument /\ ~SuppliesText /\ IsMultiPageName(req.key.s) /\ ~UsesSync)
  /\ UsesSync => (SuppliesDocument /\ ~SuppliesText /\ ~IsMultiPageName(req.key.s) /\ ~UsesAsync)
  /\ (pc # "idle" /\ SuppliesDocument /\ ~SuppliesText) => (UsesAsync \/ UsesSync)

\* C8 witness: the job is started for a name in mixed case
C8_Witness ==
  /\ pc = "poll"
  /\ calls.start = 1
  /\ req.key.s = <<"A",".","P","d","f">>

\* ------------------------------------------------------------------------
\* Properties of the schedule handler
\* ------------------------------------------------------------------------

\* the schedule handler has answered with a plan
Planned == sresp.statusCode = 200

\* the offsets of the request: the default list when the body names none
RequestedOffsets ==
  IF sreq.event.offsets_days.kind = "absent" THEN DefaultOffsets
  ELSE sreq.event.offsets_days.items

\* every requested offset is an integer
IntegerOffsets ==
  /\ sreq.event.offsets_days.kind # "null"
  /\ \A i \in DOMAIN RequestedOffsets : RequestedOffsets[i].t = "int"

\* the hour of the request
RequestedHour ==
  IF sreq.event.hour.present THEN PyInt(sreq.event.hour.v) ELSE Ok(DefaultHour)

\* the due instant of the request
RequestedDue == DueInstant(sreq.event.due_date.s, RequestedHour.v)

\* the instant a "when" text names, read field by field
WhenInstant(w) ==
  LET halves == Split(w, "T")
      date == Split(halves[1], "-")
      time == halves[2]
  IN DateTime(ToOrdinal(DigitsVal(date[1]), DigitsVal(date[2]), DigitsVal(date[3])),
              TwoDigitsAt(time, 1) * 3600 + TwoDigitsAt(time, 4) * 60 + TwoDigitsAt(time, 7))

\* the request of the spec's example: due 2024-03-10, offsets 7, 3, 0, hour 9
IsExampleRequest ==
  /\ sreq.event.due_date = Some(<<"2","0","2","4","-","0","3","-","1","0">>)
  /\ sreq.event.offsets_days = ListOffsets(<<JInt(7), JInt(3), JInt(0)>>)
  /\ sreq.event.hour = Hour(JInt(9))
  /\ sreq.putOk

\* C9: a returned plan has one event per requested integer offset, in the
\* order of the request, each with that offset, the due instant minus that
\* many days, and the type "due-day" for 0 and "reminder" otherwise; a
\* request whose instants all lie in the years 1..9999 is answered with a
\* plan; the example yields 2024-03-03, 2024-03-07 and 2024-03-10 at 09:00Z
C9_PlanFollowsOffsets ==
  /\ (Planned /\ IntegerOffsets) =>
       LET plan == sresp.body.plan
           offs == RequestedOffsets
       IN /\ Len(plan) = Len(offs)
          /\ \A i \in DOMAIN offs :
               /\ plan[i].offset_days = offs[i].m
               /\ plan[i].type = (IF offs[i].m = 0 THEN DueDay ELSE Reminder)
               /\ WhenInstant(plan[i].when).ord = RequestedDue.v.ord - offs[i].m
               /\ WhenInstant(plan[i].when).secs = RequestedDue.v.secs
               /\ plan[i].when[Len(plan[i].when)] = "Z"
  /\ (/\ sreq.event.kind = "object" /\ sreq.putOk
      /\ Truthy(sreq.event.due_date) /\ IntegerOffsets
      /\ RequestedHour.ok /\ RequestedDue.ok
      /\ \A i \in DOMAIN RequestedOffsets :
           RequestedDue.v.ord - RequestedOffsets[i].m \in 1..MaxOrdinal)
     => Planned
  /\ IsExampleRequest =>
       /\ Planned
       /\ [i \in 1..3 |-> sresp.body.plan[i].when] =
            << <<"2","0","2","4","-","0","3","-","0","3","T","0","9",":","0","0",":","0","0","Z">>, <<"2","0","2","4","-","0","3","-","0","7","T","0","9",":","0","0",":","0","0","Z">>, <<"2","0","2","4","-","0","3","-","1","0","T","0","9",":","0","0",":","0","0","Z">> >>

\* C9 witness: the plan of the example request
C9_Witness ==
  /\ IsExampleRequest
  /\ Planned
  /\ Len(sresp.body.plan) = 3
  /\ sresp.body.plan[1].when = <<"2","0","2","4","-","0","3","-","0","3","T","0","9",":","0","0",":","0","0","Z">>
  /\ sresp.body.plan[3].type = DueDay

\* the events of the plan that are at offset 0 and of type "due-day"
DueDayEvents ==
  { i \in DOMAIN sresp.body.plan :
      sresp.body.plan[i].offset_days = 0 /\ sresp.body.plan[i].type = DueDay }

\* the requested offsets that are zero
ZeroOffsets == { i \in DOMAIN RequestedOffsets : RequestedOffsets[i].m = 0 }

\* C10 as claimed: a plan for offsets that contain a zero has exactly one
\* event with offset 0 and type "due-day"
C10_ExactlyOneDueDay ==
  (Planned /\ IntegerOffsets /\ ZeroOffsets # {}) => Cardinality(DueDayEvents) = 1

\* C10 amended: a plan has one "due-day" event for each zero offset of the
\* request, at the same positions (exactly one when zero is requested
\* once), and no other event has offset 0 or type "due-day"
C10_OneDueDayPerZeroOffset ==
  (Planned /\ IntegerOffsets) =>
    /\ DueDayEvents = ZeroOffsets
    /\ \A i \in DOMAIN sresp.body.plan :
         sresp.body.plan[i].offset_days = 0 <=> sresp.body.plan[i].type = DueDay

\* C10 witness: zero requested twice, two due-day events
C10_Witness ==
  /\ Planned
  /\ RequestedOffsets = <<JInt(0), JInt(0)>>
  /\ Cardinality(DueDayEvents) = 2

\* the key the request names: user and bill, each replaced by the handler's
\* default when absent or empty
RequestedKey ==
  LET u == IF sreq.event.userId.s # <<>> THEN sreq.event.userId.s ELSE Demo
      b == IF sreq.event.billId.s # <<>> THEN sreq.event.billId.s ELSE Bill001
  IN  u \o <<"#">> \o b

\* C11: every step of the schedule handler that answers 200 leaves, under the
\* request's key, exactly the plan it returned (nothing of an earlier plan
\* is kept), and leaves every other key as it was; a step that does not
\* answer 200 leaves the table as it was.  So at any time the plan stored
\* for a key is the plan of the most recent successful request for it.
C11_RerunOverwritesPlan ==
  [][ IF sresp'.statusCode = 200
      THEN /\ DOMAIN table' = DOMAIN table \cup {RequestedKey'}
           /\ table'[RequestedKey'].plan = sresp'.body.plan
           /\ \A k \in DOMAIN table \ {RequestedKey'} : table'[k] = table[k]
      ELSE table' = table ]_vars

\* a successful request has replaced a different plan stored under its key
C11_Witness ==
  /\ Planned
  /\ replaced
  /\ table[RequestedKey].plan = sresp.body.plan
  /\ Cardinality(DOMAIN table) > 1

\* the request has a body (or none, read as {}) without a due date, or with
\* an empty one
DueMissing ==
  /\ sreq.event.kind \in {"absent", "object"}
  /\ ~Truthy(sreq.event.due_date)

\* C12: a schedule request with an absent or empty due date is answered with
\* status 400 and the error message, returns no plan and writes nothing to
\* the table.
C12_MissingDueIsInvalidInput ==
  [][ DueMissing' =>
        /\ sresp'.statusCode = 400
        /\ sresp'.body = ErrorBody(MsgDueRequired)
        /\ table' = table ]_vars

\* the due date of the request is a timestamp (it has a "T") or a date
DueIsTimestamp ==
  \E i \in DOMAIN sreq.event.due_date.s : sreq.event.due_date.s[i] = "T"

\* the UTC time of day, in seconds, of the due instant the request names:
\* hour:00:00 for a date; for a timestamp its clock time, moved by its
\* "+HH:MM" or "-HH:MM" suffix when it has one ("Z" is UTC)
DueTimeOfDay ==
  LET due == sreq.event.due_date.s
      t == Split(due, "T")[2]
      clock == TwoDigitsAt(t, 1) * 3600 + TwoDigitsAt(t, 4) * 60 + TwoDigitsAt(t, 7)
      shift == TwoDigitsAt(t, 10) * 3600 + TwoDigitsAt(t, 13) * 60
  IN IF ~DueIsTimestamp THEN RequestedHour.v * 3600
     ELSE IF Len(t) >= 14 /\ t[9] = "+" THEN (clock - shift) % 86400
     ELSE IF Len(t) >= 14 /\ t[9] = "-" THEN (clock + shift) % 86400
     ELSE clock

\* C13: in every plan the schedule handler returns, every event has the UTC
\* time of day (hour, minute, second) of the due instant; for a date-only due
\* date that time is hour:00:00 of the requested hour, whatever the offsets.
C13_EventsShareDueTimeOfDay ==
  Planned =>
    \A i \in DOMAIN sresp.body.plan :
      LET w == sresp.body.plan[i].when
      IN /\ WhenInstant(w).secs = DueTimeOfDay
         /\ ~DueIsTimestamp =>
              SubSeq(w, Len(w) - 8, Len(w)) = ZeroPad(NatStr(RequestedHour.v), 2)
                                   \o <<":","0","0",":","0","0","Z">>

\* a plan of several events for a date-only due date at hour 18
C13_Witness ==
  /\ Planned
  /\ ~DueIsTimestamp
  /\ sreq.event.hour = Hour(JInt(18))
  /\ Len(sresp.body.plan) = 3
  /\ \A i \in DOMAIN sresp.body.plan :
       WhenInstant(sresp.body.plan[i].when).secs = 18 * 3600

\* ------------------------------------------------------------------------
\* Properties of the normalizer and of the rule-based extractor
\* ------------------------------------------------------------------------

\* the function named was applied to the input
Applied(fn) == arg.fn = fn /\ out.applied

\* C14: _to_float gives 1234.56 for each of the amount strings "1,234.56",
\* "1.234,56" and "1234.56".
C14_AmountFormsCoerce ==
  (Applied("_to_float") /\ arg.v.s \in { <<"1",",","2","3","4",".","5","6">>, <<"1",".","2","3","4",",","5","6">>, <<"1","2","3","4",".","5","6">> })
    => out.value = Canon(123456, 2)

\* the text forms of the fifth of March 2024 that date coercion supports:
\* ISO, day first (ordinal suffix or not, month name full or short, in any
\* case) and month first
SupportedForms == { JStr(t) : t \in SupportedDateTexts }

\* C15: _iso_date gives "2024-03-05" for every supported text form of that
\* date: "2024-03-05", "5th March 2024" with its variants, "March 5, 2024".
C15_SupportedDateFormsCoerce ==
  (Applied("_iso_date") /\ arg.v \in SupportedForms)
    => out.value = JStr(<<"2","0","2","4","-","0","3","-","0","5">>)

\* "5th mar 2024" was coerced to 2024-03-05
C15_Witness ==
  /\ Applied("_iso_date")
  /\ arg.v = JStr(<<"5","t","h"," ","m","a","r"," ","2","0","2","4">>)
  /\ out.value = JStr(<<"2","0","2","4","-","0","3","-","0","5">>)

\* ------------------------------------------------------------------------
\* Properties of the extract handler: the normalized record
\* ------------------------------------------------------------------------

DateKeys == {"due_date", "period_start", "period_end"}

\* the fields of the strategy the request used, before normalization
ChosenFields == IF calls.rule = 1 THEN _rule_fallback(text) ELSE llm.parsed

\* an extract request got as far as choosing a strategy and was answered
Extracted == pc = "done" /\ calls.invoke = 1

\* texts naming a day the calendar does not have
InvalidDateTexts == { JStr(<<"2","0","2","4","-","0","2","-","3","1">>), JStr(<<"3","1"," ","F","e","b"," ","2","0","2","4">>) }

\* C16: when the chosen strategy gives a date field that names an invalid
\* calendar date ("2024-02-31", "31 Feb 2024"), coercion does not raise: the
\* request is answered 200 and that field is null in the response.
C16_InvalidDatesBecomeNull ==
  Extracted =>
    \A k \in DateKeys \cap DOMAIN ChosenFields :
      ChosenFields[k] \in InvalidDateTexts =>
        (resp.statusCode = 200 /\ resp.body[k] = JNull)

\* a 200 response whose due_date is null for the model's "31 Feb 2024"
C16_Witness ==
  /\ Done200
  /\ calls.rule = 0
  /\ llm.parsed = ObjDates
  /\ ChosenFields["due_date"] = JStr(<<"3","1"," ","F","e","b"," ","2","0","2","4">>)
  /\ resp.body["due_date"] = JNull

\* the number a numeric token writes: its digits, the last two of them being
\* hundredths when a "." or "," stands before exactly two final digits, and
\* every other "," "." or blank being a group separator
TokenValue(tok) ==
  LET n == Len(tok)
      hasDecimals == n >= 4 /\ tok[n - 2] \in {".", ","}
      whole == SelectSeq(IF hasDecimals THEN SubSeq(tok, 1, n - 3) ELSE tok, IsDigit)
      cents == IF hasDecimals THEN DigitsVal(SubSeq(tok, n - 1, n)) ELSE 0
  IN Canon(DigitsVal(whole) * 100 + cents, 2)

\* C17: the rule-based extractor, on a text in which an amount label is
\* followed within 160 characters by a numeric token and which holds a GHS
\* mark, gives that token's value as the amount and "GHS" as the currency
\* (452.10 and GHS for "Total Due: GHS 452.10").
C17_LabelledAmountAndGhs ==
  Applied("_rule_fallback") =>
    /\ out.fields["amount"] = TokenValue(arg.token)
    /\ out.fields["currency"] = JStr(<<"G","H","S">>)

\* C18: the body of a 200 response of the extract handler has exactly the
\* eight schema keys, the derived period and the acquisition metadata
\* (pages, source, text_preview, found_by): a key of the model's object that
\* is outside the schema is not in it.
C18_OnlySchemaKeysReturned ==
  Done200 =>
    DOMAIN resp.body = Range(SCHEMA_KEYS) \cup {"period"} \cup MetaKeys

\* a canonical date text: YYYY-MM-DD naming a day of the calendar
IsCanonicalDate(v) ==
  /\ v.t = "str"
  /\ IsIsoShape(v.s)
  /\ ValidDate(DigitsVal(SubSeq(v.s, 1, 4)), DigitsVal(SubSeq(v.s, 6, 7)),
               DigitsVal(SubSeq(v.s, 9, 10)))

\* C19: in every 200 response of the extract handler each of due_date,
\* period_start and period_end is null or a canonical YYYY-MM-DD text of a
\* valid calendar date, whatever the chosen strategy gave for it.
C19_DatesNullOrCanonical ==
  Done200 =>
    \A k \in DateKeys : resp.body[k] = JNull \/ IsCanonicalDate(resp.body[k])

\* C20: in every 200 response of the extract handler, period is non-null
\* exactly when the normalized period_start and period_end are both
\* non-null, and it is then "{period_start} to {period_end}" of those
\* normalized values.
C20_PeriodIffBothBounds ==
  Done200 =>
    LET from == resp.body["period_start"]
        to == resp.body["period_end"]
        period == resp.body["period"]
    IN /\ period # JNull <=> (from # JNull /\ to # JNull)
       /\ period # JNull => period = JStr(from.s \o <<" ","t","o"," ">> \o to.s)

\* a 200 response with the period of the model's two bounds, the second one
\* given as "Feb 29, 2024"
C20_Witness ==
  /\ Done200
  /\ calls.rule = 0
  /\ llm.parsed = ObjFull
  /\ resp.body["period"] = JStr(<<"2","0","2","4","-","0","2","-","0","1"," ","t","o"," ","2","0","2","4","-","0","2","-","2","9">>)

\* ------------------------------------------------------------------------
\* Properties of the model-assisted extractor
\* ------------------------------------------------------------------------

\* the JSON objects written in a text, in the order they stand in it
ObjectsIn(toks) == SelectSeq(toks, LAMBDA t : t.k = "obj")

\* the raw body of a reply as text: the text of the object when the body is
\* a JSON object
RawBody(r) ==
  IF r.kind \in {"dict", "structured"} THEN <<ObjTok(r.obj)>> ELSE r.toks

\* the objects the structured path has to offer: those in the joined text
\* segments of a structured reply
StructuredObjects(r) ==
  IF r.kind = "structured" THEN ObjectsIn(ReplyText(r)) ELSE <<>>

\* C21: the result of the model-assisted extractor follows the priority
\* structured reply, raw embedded object, empty: the first object in the
\* joined text segments of a structured reply when there is one (the raw body
\* is then not used), else the first object embedded in the raw body when
\* there is one, else the empty object.
C21_ParsePriority ==
  (pc = "done" /\ calls.invoke = 1 /\ ~llm.raised) =>
    llm.parsed =
      IF StructuredObjects(reply) # <<>> THEN StructuredObjects(reply)[1].o
      ELSE IF ObjectsIn(RawBody(reply)) # <<>> THEN ObjectsIn(RawBody(reply))[1].o
      ELSE EmptyObj

\* the (user, bill) pair of the request, each replaced by the handler's
\* default when absent or empty
RequestedPair ==
  << IF sreq.event.userId.s # <<>> THEN sreq.event.userId.s ELSE Demo,
     IF sreq.event.billId.s # <<>> THEN sreq.event.billId.s ELSE Bill001 >>

\* C22: plans of two distinct (user, bill) pairs are stored under distinct
\* keys: when a successful request for one pair is followed by a successful
\* request for another pair, the plan stored for the first pair (under
\* user + "#" + bill) is left as it was.
C22_DistinctPairsDistinctKeys ==
  [][ (Planned /\ Planned' /\ RequestedPair' # RequestedPair) =>
        /\ RequestedKey' # RequestedKey
        /\ table'[RequestedKey] = table[RequestedKey] ]_vars

\* the item stored under a key, or NoItem when there is none
StoredAt(t, k) == IF k \in DOMAIN t THEN t[k] ELSE NoItem

\* C23: a schedule request that ends in a failure response (400, 500) leaves
\* the item stored under its user/bill key as it was, and a request answered
\* 200 has stored, under that key, exactly the plan it returns.
C23_FailureLeavesPlanSuccessWritesIt ==
  [][ /\ sresp'.statusCode \in {400, 500} =>
           StoredAt(table', RequestedKey') = StoredAt(table, RequestedKey')
      /\ sresp'.statusCode = 200 =>
           StoredAt(table', RequestedKey').plan = sresp'.body.plan ]_vars

\* a request with hour 25 and a date-only due date was answered 500 and the
\* plan stored earlier under its key is still there
C23_Witness ==
  /\ sresp.statusCode = 500
  /\ sreq.event.hour = Hour(JInt(25))
  /\ ~DueIsTimestamp
  /\ Truthy(sreq.event.due_date)
  /\ StoredAt(table, RequestedKey) # NoItem
  /\ Len(StoredAt(table, RequestedKey).plan) = 2

\* the invocations that are at their put_item call with an item for key k
WritersOf(k) ==
  { p \in Procs : cpc[p] = "put" /\ creq[p].putOk /\ clocal[p].item.pk = k }

\* C24: with several schedule invocations in flight in any interleaving,
\* every change of the item stored under a key installs the complete item of
\* exactly one invocation that is writing that key (the last write wins and
\* no stored plan mixes the events of two requests), and the response of a
\* finished invocation is the one the handler gives for its own request.
C24_StoredPlanIsOneRequestsPlan ==
  [][ /\ \A k \in DOMAIN table' :
           \/ StoredAt(table', k) = StoredAt(table, k)
           \/ \E p \in WritersOf(k) :
                /\ cpc'[p] = "return"
                /\ table'[k] = schedule_handler(creq[p].event, TRUE).item
      /\ \A p \in Procs :
           cpc'[p] = "done" =>
             cresp'[p] = schedule_handler(creq'[p].event, creq'[p].putOk).resp ]_vars

\* two invocations in flight have both written the same key with different
\* plans, and the item stored is that of invocation 1, which kept its own
\* plan for its response
C24_Witness ==
  /\ cpc[1] = "done"
  /\ cpc[2] = "return"
  /\ creq[1].putOk /\ creq[2].putOk
  /\ clocal[1].put /\ clocal[2].put
  /\ clocal[1].item.pk = clocal[2].item.pk
  /\ clocal[1].item.plan # clocal[2].item.plan
  /\ Len(clocal[1].item.plan) = 2 /\ Len(clocal[2].item.plan) = 3
  /\ table[clocal[1].item.pk] = clocal[1].item
  /\ cresp[1].body.plan = clocal[1].item.plan
====
